---- MODULE Spec2Model ----
(***************************************************************************)
(* Model of the halacha-helper question pipeline (api/ask.js and the       *)
(* orchestrator): the response cache, the phase controller, source         *)
(* retrieval and ranking, and the synthesizer's post-processing.           *)
(*                                                                         *)
(* Strings that the code inspects are sequences: a question is a sequence  *)
(* of one-character strings, a document reference a sequence of words.     *)
(* A JavaScript object is a record; an absent field is a field that is not *)
(* in the record's DOMAIN; undefined and null are the records Undefined    *)
(* and Null.                                                               *)
(***************************************************************************)
EXTENDS Integers, Sequences, FiniteSets, TLC

VARIABLES
    variant,    \* which of the three pipeline handlers is deployed
    cache,      \* the module-level Map of ask.js, in insertion order
    now,        \* Date.now(), in milliseconds
    req         \* the request being handled: inputs, position, calls, response

vars == <<variant, cache, now, req>>

----------------------------------------------------------------------------
(* JavaScript values *)

Undefined == [undefined |-> TRUE]
Null == [null |-> TRUE]

Has(r, f) == f \in DOMAIN r

\* {...a, ...b}: the fields of b override those of a
Spread(a, b) == b @@ a

\* x.slice(0, n)
Slice(s, n) == IF Len(s) <= n THEN s ELSE SubSeq(s, 1, n)

SeqRange(s) == {s[i] : i \in 1..Len(s)}

----------------------------------------------------------------------------
(* The response cache: ask.js lines 9-33 *)

CACHE_TTL == 30 * 60 * 1000

CACHE_MAX == 100

WordChars == {"a", "b", "A", "B", "0", "_"}
SpaceChars == {" "}

\* String.prototype.toLowerCase on one character
LowerChar(c) == CASE c = "A" -> "a" [] c = "B" -> "b" [] OTHER -> c

toLowerCase(s) == [i \in 1..Len(s) |-> LowerChar(s[i])]

RECURSIVE TrimLeft(_)
TrimLeft(s) ==
    IF s # <<>> /\ Head(s) \in SpaceChars THEN TrimLeft(Tail(s)) ELSE s

RECURSIVE TrimRight(_)
TrimRight(s) ==
    IF s # <<>> /\ s[Len(s)] \in SpaceChars
    THEN TrimRight(SubSeq(s, 1, Len(s) - 1)) ELSE s

\* String.prototype.trim
trim(s) == TrimRight(TrimLeft(s))

RECURSIVE StripNonWord(_)
\* replace(/[^\w\s]/g, ''): drop every character that is neither \w nor \s
StripNonWord(s) ==
    IF s = <<>> THEN <<>>
    ELSE IF Head(s) \in WordChars \cup SpaceChars
         THEN <<Head(s)>> \o StripNonWord(Tail(s))
         ELSE StripNonWord(Tail(s))

getCacheKey(question) == StripNonWord(trim(toLowerCase(question)))

\* the position of key in the Map, 0 when it has no entry
CacheIndex(c, key) ==
    IF \E i \in 1..Len(c) : c[i].key = key
    THEN CHOOSE i \in 1..Len(c) : c[i].key = key
    ELSE 0

\* Map.prototype.delete
CacheDelete(c, key) ==
    LET i == CacheIndex(c, key)
    IN IF i = 0 THEN c ELSE SubSeq(c, 1, i - 1) \o SubSeq(c, i + 1, Len(c))

\* mutant of CacheSet: an existing key moves to the newest position
CacheSetMoveToEnd(c, key, entry) ==
    Append(CacheDelete(c, key),
           [key |-> key, data |-> entry.data, timestamp |-> entry.timestamp])

\* mutant of CacheSet: the entry is added without looking for the key
CacheSetAppend(c, key, entry) ==
    Append(c, [key |-> key, data |-> entry.data, timestamp |-> entry.timestamp])

\* Map.prototype.set: an existing key keeps its position
CacheSet(c, key, entry) ==
    LET i == CacheIndex(c, key)
        e == [key |-> key, data |-> entry.data, timestamp |-> entry.timestamp]
    IN IF i = 0 THEN Append(c, e) ELSE [c EXCEPT ![i] = e]

\* mutant of getFromCache: an entry is still served at the age of CACHE_TTL
getFromCacheInclusive(c, t, question) ==
    LET key == getCacheKey(question)
        i == CacheIndex(c, key)
    IN IF i # 0 /\ t - c[i].timestamp <= CACHE_TTL
       THEN [value |-> c[i].data, cache |-> c]
       ELSE [value |-> Null, cache |-> CacheDelete(c, key)]

\* mutant of getFromCache: a hit renews the entry
getFromCacheTouch(c, t, question) ==
    LET key == getCacheKey(question)
        i == CacheIndex(c, key)
    IN IF i # 0 /\ t - c[i].timestamp < CACHE_TTL
       THEN [value |-> c[i].data,
             cache |-> [c EXCEPT ![i].timestamp = t + 1]]
       ELSE [value |-> Null, cache |-> CacheDelete(c, key)]

\* getFromCache: the value returned and the cache it leaves behind
getFromCache(c, t, question) ==
    LET key == getCacheKey(question)
        i == CacheIndex(c, key)
    IN IF i # 0 /\ t - c[i].timestamp < CACHE_TTL
       THEN [value |-> c[i].data, cache |-> c]
       ELSE [value |-> Null, cache |-> CacheDelete(c, key)]

\* mutant of setCache: the oldest key is dropped as soon as the limit is reached
setCacheEvictAtLimit(c, t, question, data) ==
    LET key == getCacheKey(question)
        c1 == CacheSet(c, key, [data |-> data, timestamp |-> t])
    IN IF Len(c1) >= CACHE_MAX THEN CacheDelete(c1, c1[1].key) ELSE c1

\* setCache: the cache it leaves behind
setCache(c, t, question, data) ==
    LET key == getCacheKey(question)
        c1 == CacheSet(c, key, [data |-> data, timestamp |-> t])
    IN IF Len(c1) > CACHE_MAX THEN CacheDelete(c1, c1[1].key) ELSE c1

----------------------------------------------------------------------------
(* Source hierarchy: ask.js lines 38-81.  A reference is a sequence of     *)
(* words; includes() is containment of a contiguous run of words and the  *)
(* two anchored patterns compare the leading words, ignoring case.        *)

\* SOURCE_PRIORITY[category] || 10
SOURCE_PRIORITY(category) ==
    CASE category = "Shulchan Arukh HaRav" -> 1
      [] category = "Shulchan Arukh" -> 2
      [] category = "Mishneh Torah" -> 3
      [] category = "Talmud" -> 4
      [] category = "Torah" -> 5
      [] category = "Mishnah Berurah" -> 6
      [] category = "Aruch HaShulchan" -> 7
      [] OTHER -> 10

TractateNames == {
    <<"berakhot">>, <<"shabbat">>, <<"eruvin">>, <<"pesachim">>,
    <<"yoma">>, <<"sukkah">>, <<"beitzah">>, <<"rosh", "hashanah">>,
    <<"taanit">>, <<"megillah">>, <<"moed", "katan">>, <<"chagigah">>,
    <<"yevamot">>, <<"ketubot">>, <<"nedarim">>, <<"nazir">>, <<"sotah">>,
    <<"gittin">>, <<"kiddushin">>, <<"bava", "kamma">>,
    <<"bava", "metzia">>, <<"bava", "batra">>, <<"sanhedrin">>,
    <<"makkot">>, <<"shevuot">>, <<"avodah", "zarah">>, <<"horayot">>,
    <<"zevachim">>, <<"menachot">>, <<"chullin">>, <<"bekhorot">>,
    <<"arakhin">>, <<"temurah">>, <<"keritot">>, <<"meilah">>, <<"tamid">>,
    <<"middot">>, <<"kinnim">>, <<"niddah">>}

TorahBookNames == {
    <<"genesis">>, <<"exodus">>, <<"leviticus">>, <<"numbers">>,
    <<"deuteronomy">>, <<"bereishit">>, <<"shemot">>, <<"vayikra">>,
    <<"bamidbar">>, <<"devarim">>}

\* String.prototype.toLowerCase on one word (the /i flag of the two patterns)
LowerWord(w) ==
    CASE w = "Arakhin" -> "arakhin"
      [] w = "Avodah" -> "avodah"
      [] w = "Bamidbar" -> "bamidbar"
      [] w = "Batra" -> "batra"
      [] w = "Bava" -> "bava"
      [] w = "Beitzah" -> "beitzah"
      [] w = "Bekhorot" -> "bekhorot"
      [] w = "Berakhot" -> "berakhot"
      [] w = "Bereishit" -> "bereishit"
      [] w = "Chagigah" -> "chagigah"
      [] w = "Chullin" -> "chullin"
      [] w = "Deuteronomy" -> "deuteronomy"
      [] w = "Devarim" -> "devarim"
      [] w = "Eruvin" -> "eruvin"
      [] w = "Exodus" -> "exodus"
      [] w = "Genesis" -> "genesis"
      [] w = "Gittin" -> "gittin"
      [] w = "Hashanah" -> "hashanah"
      [] w = "Horayot" -> "horayot"
      [] w = "Kamma" -> "kamma"
      [] w = "Katan" -> "katan"
      [] w = "Keritot" -> "keritot"
      [] w = "Ketubot" -> "ketubot"
      [] w = "Kiddushin" -> "kiddushin"
      [] w = "Kinnim" -> "kinnim"
      [] w = "Leviticus" -> "leviticus"
      [] w = "Makkot" -> "makkot"
      [] w = "Megillah" -> "megillah"
      [] w = "Meilah" -> "meilah"
      [] w = "Menachot" -> "menachot"
      [] w = "Metzia" -> "metzia"
      [] w = "Middot" -> "middot"
      [] w = "Moed" -> "moed"
      [] w = "Nazir" -> "nazir"
      [] w = "Nedarim" -> "nedarim"
      [] w = "Niddah" -> "niddah"
      [] w = "Numbers" -> "numbers"
      [] w = "Pesachim" -> "pesachim"
      [] w = "Rosh" -> "rosh"
      [] w = "Sanhedrin" -> "sanhedrin"
      [] w = "Shabbat" -> "shabbat"
      [] w = "Shemot" -> "shemot"
      [] w = "Shevuot" -> "shevuot"
      [] w = "Sotah" -> "sotah"
      [] w = "Sukkah" -> "sukkah"
      [] w = "Taanit" -> "taanit"
      [] w = "Tamid" -> "tamid"
      [] w = "Temurah" -> "temurah"
      [] w = "Vayikra" -> "vayikra"
      [] w = "Yevamot" -> "yevamot"
      [] w = "Yoma" -> "yoma"
      [] w = "Zarah" -> "zarah"
      [] w = "Zevachim" -> "zevachim"
      [] OTHER -> w

\* ref.includes(pat)
Includes(ref, pat) ==
    \E i \in 0..(Len(ref) - Len(pat)) :
        \A j \in 1..Len(pat) : ref[i + j] = pat[j]

\* ref.match(/^(n1|n2|...)/i)
MatchesStart(ref, names) ==
    \E n \in names :
        /\ Len(n) <= Len(ref)
        /\ \A j \in 1..Len(n) : LowerWord(ref[j]) = n[j]

\* mutant of getSourceCategory: the Shulchan Arukh rule tried first, and no
\* default
getSourceCategoryMisordered(ref) ==
    IF \/ Includes(ref, <<"Shulchan", "Arukh">>)
       \/ Includes(ref, <<"Shulchan", "Aruch">>)
    THEN "Shulchan Arukh"
    ELSE IF \/ Includes(ref, <<"Shulchan", "Arukh", "HaRav">>)
            \/ Includes(ref, <<"Shulchan", "Aruch", "HaRav">>)
    THEN "Shulchan Arukh HaRav"
    ELSE IF Includes(ref, <<"Mishneh", "Torah">>) \/ Includes(ref, <<"Rambam">>)
    THEN "Mishneh Torah"
    ELSE IF \/ Includes(ref, <<"Talmud">>) \/ Includes(ref, <<"Bavli">>)
            \/ Includes(ref, <<"Yerushalmi">>)
            \/ MatchesStart(ref, TractateNames)
    THEN "Talmud"
    ELSE IF MatchesStart(ref, TorahBookNames)
    THEN "Torah"
    ELSE IF Includes(ref, <<"Mishnah", "Berurah">>)
    THEN "Mishnah Berurah"
    ELSE IF Includes(ref, <<"Aruch", "HaShulchan">>)
    THEN "Aruch HaShulchan"
    ELSE "Uncategorized"

getSourceCategory(ref) ==
    IF \/ Includes(ref, <<"Shulchan", "Arukh", "HaRav">>)
       \/ Includes(ref, <<"Shulchan", "Aruch", "HaRav">>)
    THEN "Shulchan Arukh HaRav"
    ELSE IF \/ Includes(ref, <<"Shulchan", "Arukh">>)
            \/ Includes(ref, <<"Shulchan", "Aruch">>)
    THEN "Shulchan Arukh"
    ELSE IF Includes(ref, <<"Mishneh", "Torah">>) \/ Includes(ref, <<"Rambam">>)
    THEN "Mishneh Torah"
    ELSE IF \/ Includes(ref, <<"Talmud">>) \/ Includes(ref, <<"Bavli">>)
            \/ Includes(ref, <<"Yerushalmi">>)
            \/ MatchesStart(ref, TractateNames)
    THEN "Talmud"
    ELSE IF MatchesStart(ref, TorahBookNames)
    THEN "Torah"
    ELSE IF Includes(ref, <<"Mishnah", "Berurah">>)
    THEN "Mishnah Berurah"
    ELSE IF Includes(ref, <<"Aruch", "HaShulchan">>)
    THEN "Aruch HaShulchan"
    ELSE "Other"

RECURSIVE InsertBeforeEqual(_, _)
\* mutant of InsertByPriority: d placed before the elements of its own priority
InsertBeforeEqual(sorted, d) ==
    IF sorted = <<>> THEN <<d>>
    ELSE IF SOURCE_PRIORITY(d.category) <= SOURCE_PRIORITY(Head(sorted).category)
         THEN <<d>> \o sorted
         ELSE <<Head(sorted)>> \o InsertBeforeEqual(Tail(sorted), d)

RECURSIVE InsertByPriority(_, _)
\* d placed after every element of the sorted list whose priority is <= its own
InsertByPriority(sorted, d) ==
    IF sorted = <<>> THEN <<d>>
    ELSE IF SOURCE_PRIORITY(d.category) < SOURCE_PRIORITY(Head(sorted).category)
         THEN <<d>> \o sorted
         ELSE <<Head(sorted)>> \o InsertByPriority(Tail(sorted), d)

RECURSIVE SortFrom(_, _)
SortFrom(sorted, rest) ==
    IF rest = <<>> THEN sorted
    ELSE SortFrom(InsertByPriority(sorted, Head(rest)), Tail(rest))

\* Array.prototype.sort with the comparator priorityA - priorityB (a stable sort)
sortByHierarchy(sources) == SortFrom(<<>>, sources)

----------------------------------------------------------------------------
(* The retrieval service as one retrieval sees it: world.hits[term] is the *)
(* list of references a search returns (empty when the call fails),        *)
(* world.texts the references whose text fetch succeeds, world.related[r]  *)
(* the references the related-links lookup of r returns.                   *)

\* fetchText(ref) when the fetch succeeds: ask.js lines 143-149
Document(ref) ==
    [ref |-> ref,
     english |-> <<"en">> \o ref,
     hebrew |-> <<"he">> \o ref,
     heTitle |-> ref,
     category |-> getSourceCategory(ref)]

\* x?.f read as a list: the loops and the `|| []` defaults treat undefined as empty
ListOf(x, f) == IF Has(x, f) THEN x[f] ELSE <<>>

\* mutant of Dedupe: every element is added, seen before or not
DedupeKeepAll(seen, s) == seen \o s

RECURSIVE Dedupe(_, _)
\* the insertion order of a Set to which the elements of s are added in turn
Dedupe(seen, s) ==
    IF s = <<>> THEN seen
    ELSE IF Head(s) \in SeqRange(seen) THEN Dedupe(seen, Tail(s))
    ELSE Dedupe(Append(seen, Head(s)), Tail(s))

RECURSIVE Flatten(_)
Flatten(ss) == IF ss = <<>> THEN <<>> ELSE Head(ss) \o Flatten(Tail(ss))

\* mutant of FetchAll: one failed fetch fails them all
FetchAllOrNothing(refs, world) ==
    IF \A i \in 1..Len(refs) : refs[i] \in world.texts
    THEN [i \in 1..Len(refs) |-> Document(refs[i])]
    ELSE <<>>

RECURSIVE FetchAll(_, _)
\* the non-null results of fetchText over refs, in order
FetchAll(refs, world) ==
    IF refs = <<>> THEN <<>>
    ELSE IF Head(refs) \in world.texts
         THEN <<Document(Head(refs))>> \o FetchAll(Tail(refs), world)
         ELSE FetchAll(Tail(refs), world)

searchInfoOf(searchTerms, sefariaRefs) ==
    [hebrewTermsUsed |-> ListOf(searchTerms, "hebrew"),
     englishTermsUsed |-> ListOf(searchTerms, "english"),
     directRefsChecked |-> sefariaRefs]

\* the object a retriever returns (ask.js lines 203-212)
sourcesOf(sourcesArray, searchTerms, sefariaRefs) ==
    [success |-> Len(sourcesArray) > 0,
     totalSources |-> Len(sourcesArray),
     allSourcesList |-> sourcesArray,
     searchInfo |-> searchInfoOf(searchTerms, sefariaRefs)]

DocRefs(docs) == {docs[i].ref : i \in 1..Len(docs)}

RECURSIVE FetchMissing(_, _, _)
\* for each hit in order: unless the Map has it already, fetch it and keep a
\* successful result (ask.js lines 655-660)
FetchMissing(acc, refs, world) ==
    IF refs = <<>> THEN acc
    ELSE IF Head(refs) \in DocRefs(acc.docs)
         THEN FetchMissing(acc, Tail(refs), world)
         ELSE FetchMissing(
                [acc EXCEPT
                   !.fetches = Append(@, Head(refs)),
                   !.docs = IF Head(refs) \in world.texts
                            THEN Append(@, Document(Head(refs))) ELSE @],
                Tail(refs), world)

RECURSIVE SearchEach(_, _, _, _)
\* one search per term in order, keeping the first n hits of each
SearchEach(acc, terms, n, world) ==
    IF terms = <<>> THEN acc
    ELSE SearchEach(
           FetchMissing([acc EXCEPT !.searches = Append(@, Head(terms))],
                        Slice(world.hits[Head(terms)], n), world),
           Tail(terms), n, world)

RECURSIVE SetAll(_, _)
\* allSources.set(result.ref, result) for each result in order
SetAll(docs, results) ==
    IF results = <<>> THEN docs
    ELSE IF Head(results).ref \in DocRefs(docs) THEN SetAll(docs, Tail(results))
    ELSE SetAll(Append(docs, Head(results)), Tail(results))

\* what a retriever hands back: the response object, with the calls it made
retrieved(acc, searchTerms, sefariaRefs) ==
    [sources |-> sourcesOf(sortByHierarchy(acc.docs), searchTerms, sefariaRefs),
     searches |-> acc.searches,
     fetches |-> acc.fetches,
     lookups |-> acc.lookups]

\* step 1: every explicit reference is fetched (ask.js lines 643-649)
DirectStep(sefariaRefs, world) ==
    [docs |-> SetAll(<<>>, FetchAll(sefariaRefs, world)),
     searches |-> <<>>,
     fetches |-> sefariaRefs,
     lookups |-> <<>>]

\* step 2: the first three Hebrew terms, five hits each (ask.js lines 652-662)
HebrewStep(acc, searchTerms, world) ==
    SearchEach(acc, Slice(ListOf(searchTerms, "hebrew"), 3), 5, world)

\* mutant of EnglishStep: five collected documents do not yet stop the
\* English searches
EnglishStepAtFive(acc, searchTerms, world) ==
    IF Len(ListOf(searchTerms, "english")) > 0 /\ Len(acc.docs) <= 5
    THEN SearchEach(acc, Slice(ListOf(searchTerms, "english"), 2), 3, world)
    ELSE acc

\* step 3: the first two English terms, three hits each, when fewer than five
\* documents were collected (ask.js lines 665-675)
EnglishStep(acc, searchTerms, world) ==
    IF Len(ListOf(searchTerms, "english")) > 0 /\ Len(acc.docs) < 5
    THEN SearchEach(acc, Slice(ListOf(searchTerms, "english"), 2), 3, world)
    ELSE acc

\* steps 1-3 of the sequential retriever (ask.js lines 642-675)
SequentialSteps(searchTerms, sefariaRefs, world) ==
    EnglishStep(HebrewStep(DirectStep(sefariaRefs, world), searchTerms, world),
                searchTerms, world)

\* searchSources of the consolidated handler
searchSources(searchTerms, sefariaRefs, world) ==
    retrieved(SequentialSteps(searchTerms, sefariaRefs, world),
              searchTerms, sefariaRefs)

RECURSIVE SelectDocs(_, _)
\* Array.prototype.filter on the category
SelectDocs(docs, categories) ==
    IF docs = <<>> THEN <<>>
    ELSE IF Head(docs).category \in categories
         THEN <<Head(docs)>> \o SelectDocs(Tail(docs), categories)
         ELSE SelectDocs(Tail(docs), categories)

RECURSIVE RelatedEach(_, _, _)
\* one related-links lookup per source, three links each
RelatedEach(acc, halachic, world) ==
    IF halachic = <<>> THEN acc
    ELSE RelatedEach(
           FetchMissing([acc EXCEPT !.lookups = Append(@, Head(halachic).ref)],
                        Slice(world.related[Head(halachic).ref], 3), world),
           Tail(halachic), world)

\* step 4 of the search-sources endpoint: the related links of the first two
\* Shulchan Arukh sources (search-sources.js lines 225-239)
RelatedStep(acc, world) ==
    RelatedEach(acc,
                Slice(SelectDocs(acc.docs,
                                 {"Shulchan Arukh", "Shulchan Arukh HaRav"}), 2),
                world)

\* the search-sources endpoint, which the orchestrator calls over HTTP
searchSourcesEndpoint(searchTerms, sefariaRefs, world) ==
    retrieved(RelatedStep(SequentialSteps(searchTerms, sefariaRefs, world), world),
              searchTerms, sefariaRefs)

\* mutant of ParallelRefs: five hits of a Hebrew search are kept
ParallelRefsFiveHits(hebrew, english, sefariaRefs, world) ==
    Dedupe(Dedupe(<<>>, sefariaRefs),
           Flatten([i \in 1..Len(hebrew) |-> Slice(world.hits[hebrew[i]], 5)])
           \o Flatten([i \in 1..Len(english) |-> Slice(world.hits[english[i]], 3)]))

\* the references of the merged Set, in insertion order: the explicit ones,
\* then the first four hits of each of the first three Hebrew terms, then the
\* first three hits of each of the first two English terms (ask.js 161-192)
ParallelRefs(hebrew, english, sefariaRefs, world) ==
    Dedupe(Dedupe(<<>>, sefariaRefs),
           Flatten([i \in 1..Len(hebrew) |-> Slice(world.hits[hebrew[i]], 4)])
           \o Flatten([i \in 1..Len(english) |-> Slice(world.hits[english[i]], 3)]))

\* the fetches and the sort (ask.js lines 195-201)
ParallelFetch(searches, refsToFetch, world) ==
    [docs |-> FetchAll(refsToFetch, world),
     searches |-> searches,
     fetches |-> refsToFetch,
     lookups |-> <<>>]

ParallelTerms(hebrew, english, sefariaRefs, world) ==
    ParallelFetch(hebrew \o english,
                  Slice(ParallelRefs(hebrew, english, sefariaRefs, world), 12),
                  world)

\* searchSourcesParallel: the result, with the search and fetch calls it issued
searchSourcesParallel(searchTerms, sefariaRefs, world) ==
    retrieved(ParallelTerms(Slice(ListOf(searchTerms, "hebrew"), 3),
                            Slice(ListOf(searchTerms, "english"), 2),
                            sefariaRefs, world),
              searchTerms, sefariaRefs)

----------------------------------------------------------------------------
(* Synthesis post-processing and the response bodies of the handlers *)

\* the record of the last source with reference r (a later assignment to
\* result.sourceTexts[ref] replaces an earlier one)
SourceTextOf(list, r) ==
    LET i == CHOOSE k \in 1..Len(list) :
                 list[k].ref = r /\ \A m \in (k + 1)..Len(list) : list[m].ref # r
    IN [ref |-> list[i].ref, english |-> list[i].english,
        hebrew |-> list[i].hebrew, found |-> TRUE]

\* mutant of attachSourceTexts: a sourceTexts field of the result is kept
attachSourceTextsIfAbsent(result, sources) ==
    Spread([sourceTexts |-> [r \in DocRefs(sources.allSourcesList) |->
                                SourceTextOf(sources.allSourcesList, r)]],
           result)

\* reasonWithSources after the completion call returned (ask.js lines 383-393)
attachSourceTexts(result, sources) ==
    Spread(result,
           [sourceTexts |-> [r \in DocRefs(sources.allSourcesList) |->
                                 SourceTextOf(sources.allSourcesList, r)]])

\* mutant of finalResultOf: the completion result spread last
finalResultSpreadLast(result, triage, sources) ==
    Spread([phase |-> "complete", triage |-> triage,
            sourcesFound |-> sources.totalSources],
           result)

\* { phase: 'complete', ...result, triage, sourcesFound } (ask.js lines 435-440)
finalResultOf(result, triage, sources) ==
    Spread(Spread([phase |-> "complete"], result),
           [triage |-> triage, sourcesFound |-> sources.totalSources])

\* { ...cached, fromCache: true } (ask.js line 413)
cachedResponse(cached) == Spread(cached, [fromCache |-> TRUE])

DefaultDeferAnswer == "This question requires personal rabbinic guidance."

\* mutant of deferralBody: the default answer forgotten
deferralBodyNoDefault(triage) ==
    [phase |-> "complete",
     canAnswer |-> FALSE,
     mustDeferToRabbi |-> TRUE,
     answer |-> IF Has(triage, "deferReason") THEN triage.deferReason ELSE "",
     triage |-> triage,
     domain |-> IF Has(triage, "domain") THEN triage.domain ELSE "undefined"]

\* ask.js lines 450-457; deferReason || default
deferralBody(triage) ==
    [phase |-> "complete",
     canAnswer |-> FALSE,
     mustDeferToRabbi |-> TRUE,
     answer |-> IF Has(triage, "deferReason") /\ triage.deferReason # ""
                THEN triage.deferReason ELSE DefaultDeferAnswer,
     triage |-> triage,
     domain |-> IF Has(triage, "domain") THEN triage.domain ELSE "undefined"]

\* ask.js line 465
sessionStateOf(triage) ==
    [triageComplete |-> TRUE, contextComplete |-> FALSE, triage |-> triage]

\* ask.js lines 461-466
needsContextBody(triage) ==
    [phase |-> "needs_context",
     triage |-> triage,
     contextQuestions |-> triage.contextQuestions,
     sessionState |-> sessionStateOf(triage)]

\* ask.js lines 470-475
needsClarificationBody(triage) ==
    [phase |-> "needs_clarification",
     triage |-> triage,
     clarifications |-> triage.clarifications,
     sessionState |-> sessionStateOf(triage)]

NoSourcesAnswer(v, resumed) ==
    CASE v = "optimized" ->
           "I couldn't find relevant halachic sources. Please consult a rabbi."
      [] v = "consolidated" ->
           "I couldn't find relevant halachic sources for this question. Please consult a rabbi."
      [] v = "orchestrator" /\ resumed ->
           "I couldn't find relevant halachic sources for this question. This question should be directed to a rabbi who can research the primary sources directly."
      [] OTHER ->
           "I couldn't find relevant halachic sources for this question in my search. This question should be directed to a rabbi who can research the primary sources directly."

\* ask.js lines 425-431 and 485-491; the other two handlers add sourcesSearched
noSourcesBody(v, resumed, triage, sources) ==
    LET body == [phase |-> "complete",
                 canAnswer |-> FALSE,
                 noSourcesFound |-> TRUE,
                 answer |-> NoSourcesAnswer(v, resumed),
                 triage |-> triage]
    IN IF v = "optimized" THEN body
       ELSE Spread(body, [sourcesSearched |-> sources.searchInfo])

\* ask.js line 507; the orchestrator drops the message (part_000 line 202)
errorBody(v, message) ==
    IF v = "orchestrator" THEN [error |-> <<"Failed to process question">>]
    ELSE [error |-> <<"Failed to process question: ", message>>]

----------------------------------------------------------------------------
(* The decisions of the handlers *)

\* a field read in a condition: absent, false, 0, '' and null are falsy
Truthy(x, f) == Has(x, f) /\ x[f] = TRUE

\* x.f?.length > 0, and x.f && x.f.length > 0
NonEmpty(x, f) == Has(x, f) /\ Len(x[f]) > 0

\* mutant of isCacheHit: the session token not looked at
isCacheHitAnySession(cached, sessionState) == cached # Null

\* `cached && !sessionState` (ask.js line 412)
isCacheHit(cached, sessionState) == cached # Null /\ sessionState = Undefined

\* mutant of isResumed: only a token with contextComplete resumes
isResumedWhenContextComplete(v, sessionState) ==
    /\ Has(sessionState, "triageComplete") /\ sessionState.triageComplete = TRUE
    /\ Has(sessionState, "contextComplete") /\ sessionState.contextComplete = TRUE

\* the handler takes the search-and-reason branch without triage:
\* ask.js line 418; ask.js lines 958 and 986; part_000 lines 62 and 98
isResumed(v, sessionState) ==
    IF v = "optimized" THEN Truthy(sessionState, "triageComplete")
    ELSE \/ Truthy(sessionState, "triageComplete")
            /\ Truthy(sessionState, "contextComplete")
         \/ Truthy(sessionState, "triageComplete")
            /\ ~Truthy(sessionState, "contextComplete")

\* mutant of triageOutcome: the context check made before the deferral check
triageOutcomeContextFirst(triage) ==
    IF /\ Has(triage, "needsContext") /\ triage.needsContext = TRUE
       /\ Has(triage, "contextQuestions") /\ Len(triage.contextQuestions) > 0
    THEN "needs_context"
    ELSE IF Has(triage, "mustDeferToRabbi") /\ triage.mustDeferToRabbi = TRUE
    THEN "defer"
    ELSE IF /\ Has(triage, "isAmbiguous") /\ triage.isAmbiguous = TRUE
            /\ Has(triage, "clarifications") /\ Len(triage.clarifications) > 0
    THEN "needs_clarification"
    ELSE "retrieve"

\* the branch taken once a fresh triage is in hand (ask.js lines 449-478)
triageOutcome(triage) ==
    IF Truthy(triage, "mustDeferToRabbi") THEN "defer"
    ELSE IF Truthy(triage, "needsContext") /\ NonEmpty(triage, "contextQuestions")
    THEN "needs_context"
    ELSE IF Truthy(triage, "isAmbiguous") /\ NonEmpty(triage, "clarifications")
    THEN "needs_clarification"
    ELSE "retrieve"

\* mutant of noSources: only a missing result counts as no sources
noSourcesWhenMissing(sources) == ~Has(sources, "allSourcesList")

\* `!sources.success || sources.totalSources === 0` (ask.js lines 424 and 484)
noSources(sources) == ~sources.success \/ sources.totalSources = 0

\* mutant of reasonContext: the context of the request is handed on always
reasonContextAlways(resumed, context) == context

\* the context handed to reasoning: `context || []` when resumed, [] when fresh
\* (ask.js lines 434 and 494)
reasonContext(resumed, context) == IF resumed THEN context ELSE <<>>

\* whether the handler writes its final result to the cache: both branches of
\* ask.js do (lines 442 and 502), the other two handlers have no cache
writesCache(v, resumed) == v = "optimized"

\* the retriever a handler uses
retrieve(v, searchTerms, sefariaRefs, world) ==
    CASE v = "optimized" -> searchSourcesParallel(searchTerms, sefariaRefs, world)
      [] v = "consolidated" -> searchSources(searchTerms, sefariaRefs, world)
      [] OTHER -> searchSourcesEndpoint(searchTerms, sefariaRefs, world)

----------------------------------------------------------------------------
(* Inputs: what clients send and what the two external services answer *)

MaxTicks == 1

\* the clock advances in steps of the time to live
TickStep == CACHE_TTL

Handlers == {"optimized", "consolidated", "orchestrator"}

\* the question field of a request body: a string, nothing at all, or a
\* number; text is what a template literal makes of it
RequestQuestions ==
    {[type |-> "string", text |-> q] : q \in {<<>>, <<"A">>, <<"a", "?">>}}
    \cup {[type |-> "undefined", text |-> <<>>],
          [type |-> "number", text |-> <<"0">>],
          [type |-> "number", text |-> <<"7">>]}

Contexts == {<<>>, <<[question |-> "nusach", answer |-> "chabad"]>>}

RefShulchanArukh == <<"Shulchan", "Arukh", "Yoreh", "Deah", "89">>
RefBerakhot == <<"Berakhot", "2a">>

RefSet == {RefShulchanArukh, RefBerakhot}
TermsA == [hebrew |-> <<"basar">>, english |-> <<"milk">>,
           sefariaRefs |-> <<RefShulchanArukh>>]
TermsB == [hebrew |-> <<>>, english |-> <<"milk">>]

Tri(defer, reason, needs, questions, ambiguous, clars, terms) ==
    [questionType |-> "din",
     level |-> "d_rabbanan",
     domain |-> "Kashrut",
     mustDeferToRabbi |-> defer,
     deferReason |-> reason,
     needsContext |-> needs,
     contextQuestions |-> questions,
     isAmbiguous |-> ambiguous,
     clarifications |-> clars,
     searchTerms |-> terms,
     initialAssessment |-> "waiting between meat and milk"]

ContextQuestions == <<[question |-> "nusach", why |-> "customs differ"]>>
Clarifications == <<"which meal">>

\* what the completion service may return for a triage: every combination of
\* the three flags with both lists filled, a flag set with its list empty,
\* a deferral that gives its reason, and results whose search terms differ
\* or that lack the optional fields
TriageSet ==
    {Tri(d, "", n, ContextQuestions, a, Clarifications, TermsA) :
        d \in BOOLEAN, n \in BOOLEAN, a \in BOOLEAN}
    \cup {Tri(FALSE, "", TRUE, <<>>, TRUE, Clarifications, TermsA),
          Tri(FALSE, "", TRUE, <<>>, FALSE, <<>>, TermsA),
          Tri(FALSE, "", FALSE, <<>>, TRUE, <<>>, TermsA),
          Tri(TRUE, "a medical question", FALSE, <<>>, FALSE, <<>>, TermsA),
          Tri(FALSE, "", FALSE, <<>>, FALSE, <<>>, TermsB),
          [questionType |-> "din", needsContext |-> TRUE, isAmbiguous |-> TRUE]}

\* what the completion service may return for a ruling; the prompt asks for
\* the first shape, and nothing in the code checks the shape
ReasonResults ==
    {[canAnswer |-> TRUE, answer |-> "wait six hours"],
     [canAnswer |-> FALSE, answer |-> "unclear", phase |-> "needs_context",
      triage |-> Undefined, sourcesFound |-> 0,
      sourceTexts |-> [r \in {<<"Rambam">>} |->
                          [ref |-> r, english |-> <<>>, hebrew |-> <<>>,
                           found |-> FALSE]]]}

\* the messages of the errors callClaude throws: the service answered with a
\* non-success status (ask.js line 241), the text held braces that JSON.parse
\* rejects (line 249), the text held no braces at all (line 251)
CompletionErrors ==
    {"AI service error", "Unexpected token", "Failed to parse AI response"}

\* session tokens a client may send that no response of this model carried
ForgedSessions ==
    {[other |-> TRUE],
     [triageComplete |-> FALSE, contextComplete |-> FALSE,
      triage |-> Tri(FALSE, "", FALSE, <<>>, FALSE, <<>>, TermsA)],
     [triageComplete |-> TRUE, contextComplete |-> TRUE,
      triage |-> Tri(FALSE, "", TRUE, ContextQuestions, FALSE, <<>>, TermsB)],
     [triageComplete |-> TRUE,
      triage |-> Tri(TRUE, "", FALSE, <<>>, FALSE, <<>>, TermsA)],
     [triageComplete |-> TRUE, contextComplete |-> FALSE]}

\* what the retrieval service answers during one retrieval: the Hebrew search
\* finds two references (one of them the explicit one) or fails, the English
\* search finds one, and the text fetches fail, succeed for the explicit
\* reference alone, or succeed
Worlds ==
    [hits : {[t \in {"basar", "milk"} |->
                 IF t = "basar" THEN h ELSE <<RefBerakhot>>] :
                h \in {<<>>, <<RefBerakhot, RefShulchanArukh>>}},
     texts : {{}, {RefShulchanArukh}, RefSet},
     related : {[r \in RefSet |-> <<RefBerakhot>>]}]

----------------------------------------------------------------------------
(* The request in hand *)

NoResponse == [status |-> 0, body |-> Undefined]

NotCalled == [called |-> FALSE]

Idle ==
    [pc |-> "idle",
     method |-> "POST",
     questionType |-> "string",
     question |-> <<>>,
     context |-> <<>>,
     sessionState |-> Undefined,
     resumed |-> FALSE,
     triage |-> Undefined,
     sources |-> Undefined,
     response |-> NoResponse,
     triageCalls |-> 0,
     searchArgs |-> NotCalled,
     searches |-> <<>>,
     fetches |-> <<>>,
     lookups |-> <<>>,
     reasonArgs |-> NotCalled,
     cacheGets |-> 0,
     cacheEvictions |-> 0,
     cacheSets |-> 0,
     echo |-> FALSE,
     firstTriageCalls |-> 0,
     firstTriage |-> Undefined,
     completionError |-> "none"]

Respond(r, status, body) ==
    [r EXCEPT !.pc = "done", !.response = [status |-> status, body |-> body]]

Init ==
    /\ variant \in Handlers
    /\ cache = <<>>
    /\ now = 0
    /\ req = Idle

----------------------------------------------------------------------------
(* The handler, one action per stretch of code between two awaits *)

searchTermsOf(triage) ==
    IF Has(triage, "searchTerms") THEN triage.searchTerms ELSE Undefined

\* the arguments of the retrieval call: triage.searchTerms and
\* triage.searchTerms?.sefariaRefs || [] (ask.js lines 419-422, 479-482)
searchArgsOf(triage) ==
    [called |-> TRUE,
     searchTerms |-> searchTermsOf(triage),
     sefariaRefs |-> ListOf(searchTermsOf(triage), "sefariaRefs")]

\* mutant of Dispatch: a token without a triage object sends the request to
\* the triage
DispatchLenient(r) ==
    IF isResumed(variant, r.sessionState) /\ Has(r.sessionState, "triage")
    THEN [r EXCEPT !.pc = "search",
                   !.resumed = TRUE,
                   !.triage = r.sessionState.triage,
                   !.searchArgs = searchArgsOf(r.sessionState.triage)]
    ELSE [r EXCEPT !.pc = "triage", !.triageCalls = @ + 1]

\* the handler from the cache check's miss to its first await
\* (ask.js lines 416-447); reading sessionState.triage.searchTerms of a token
\* without triage throws inside the try block
Dispatch(r) ==
    IF isResumed(variant, r.sessionState)
    THEN IF Has(r.sessionState, "triage")
         THEN [r EXCEPT !.pc = "search",
                        !.resumed = TRUE,
                        !.triage = r.sessionState.triage,
                        !.searchArgs = searchArgsOf(r.sessionState.triage)]
         ELSE Respond([r EXCEPT !.resumed = TRUE], 500,
                      errorBody(variant, "Cannot read properties of undefined"))
    ELSE [r EXCEPT !.pc = "triage", !.triageCalls = @ + 1]

\* `!question` (ask.js line 406): undefined, the empty string and 0 are falsy
isFalsy(type, text) ==
    \/ type = "undefined"
    \/ type = "string" /\ text = <<>>
    \/ type = "number" /\ text = <<"0">>

\* the handler ends by an exception that nothing catches: it writes no response
Reject(r) == [r EXCEPT !.pc = "done"]

\* the handler from its entry to its first await or early return
\* (ask.js lines 399-447): the new request record and the cache left behind;
\* getCacheKey calls question.toLowerCase() before the try block is entered
Begin(r) ==
    IF r.method # "POST"
    THEN [req |-> Respond(r, 405, [error |-> <<"Method not allowed">>]),
          cache |-> cache]
    ELSE IF isFalsy(r.questionType, r.question)
    THEN [req |-> Respond(r, 400, [error |-> <<"Question is required">>]),
          cache |-> cache]
    ELSE IF variant = "optimized" /\ r.questionType # "string"
    THEN [req |-> Reject(r), cache |-> cache]
    ELSE IF variant = "optimized"
    THEN LET got == getFromCache(cache, now, r.question)
             looked == [r EXCEPT
                          !.cacheGets = @ + 1,
                          !.cacheEvictions =
                              IF Len(got.cache) < Len(cache) THEN @ + 1 ELSE @]
         IN IF isCacheHit(got.value, r.sessionState)
            THEN [req |-> Respond(looked, 200, cachedResponse(got.value)),
                  cache |-> got.cache]
            ELSE [req |-> Dispatch(looked), cache |-> got.cache]
    ELSE [req |-> Dispatch(r), cache |-> cache]

\* a request that is not a POST, with any question
StartOther ==
    /\ req.pc \in {"idle", "done"}
    /\ \E q \in RequestQuestions :
          LET b == Begin([Idle EXCEPT !.method = "GET",
                                      !.questionType = q.type,
                                      !.question = q.text])
          IN req' = b.req /\ cache' = b.cache
    /\ UNCHANGED <<variant, now>>

\* a POST with any question, context and session token
Start ==
    /\ req.pc \in {"idle", "done"}
    /\ \E q \in RequestQuestions, c \in Contexts,
          s \in {Undefined} \cup ForgedSessions :
          LET b == Begin([Idle EXCEPT !.questionType = q.type,
                                      !.question = q.text,
                                      !.context = c,
                                      !.sessionState = s])
          IN req' = b.req /\ cache' = b.cache
    /\ UNCHANGED <<variant, now>>

\* the client answers a needs_context or needs_clarification response: the
\* same question, the session token of that response, and any context
StartEcho ==
    /\ req.pc = "done"
    /\ Has(req.response.body, "sessionState")
    /\ \E c \in Contexts :
          LET b == Begin([Idle EXCEPT
                            !.questionType = req.questionType,
                            !.question = req.question,
                            !.context = c,
                            !.sessionState = req.response.body.sessionState,
                            !.echo = TRUE,
                            !.firstTriageCalls = req.triageCalls,
                            !.firstTriage = req.response.body.triage])
          IN req' = b.req /\ cache' = b.cache
    /\ UNCHANGED <<variant, now>>

\* the triage completion call returns (ask.js lines 447-482)
TriageReturns ==
    /\ req.pc = "triage"
    /\ \E t \in TriageSet :
          LET r == [req EXCEPT !.triage = t]
              outcome == triageOutcome(t)
          IN req' =
               CASE outcome = "defer" -> Respond(r, 200, deferralBody(t))
                 [] outcome = "needs_context" ->
                      Respond(r, 200, needsContextBody(t))
                 [] outcome = "needs_clarification" ->
                      Respond(r, 200, needsClarificationBody(t))
                 [] OTHER ->
                      [r EXCEPT !.pc = "search", !.searchArgs = searchArgsOf(t)]
    /\ UNCHANGED <<variant, cache, now>>

\* mutant of catchError: the failed request is started over
catchErrorRetry(r, m) ==
    [r EXCEPT !.pc = "triage", !.triageCalls = @ + 1]

\* the catch block of the handler (ask.js lines 505-508)
catchError(r, m) == Respond(r, 500, errorBody(variant, m))

\* the triage completion call throws (ask.js lines 505-508)
TriageThrows ==
    /\ req.pc = "triage"
    /\ \E m \in CompletionErrors :
          req' = catchError([req EXCEPT !.completionError = m], m)
    /\ UNCHANGED <<variant, cache, now>>

\* what the handler does with the retrieval's result
\* (ask.js lines 424-434 and 484-494)
AfterRetrieval(r, got) ==
    IF noSources(got.sources)
    THEN Respond([r EXCEPT !.sources = got.sources,
                           !.searches = got.searches,
                           !.fetches = got.fetches,
                           !.lookups = got.lookups],
                 200, noSourcesBody(variant, r.resumed, r.triage, got.sources))
    ELSE [r EXCEPT !.sources = got.sources,
                   !.searches = got.searches,
                   !.fetches = got.fetches,
                   !.lookups = got.lookups,
                   !.pc = "reason",
                   !.reasonArgs =
                       [called |-> TRUE,
                        context |-> reasonContext(r.resumed, r.context),
                        triage |-> r.triage,
                        sources |-> got.sources]]

\* the retrieval returns
RetrievalReturns ==
    /\ req.pc = "search"
    /\ \E world \in Worlds :
          req' = AfterRetrieval(req, retrieve(variant, req.searchArgs.searchTerms,
                                              req.searchArgs.sefariaRefs, world))
    /\ UNCHANGED <<variant, cache, now>>

\* the orchestrator's call to the search-sources endpoint fails
\* (part_000 lines 28-30); the retrievers of ask.js catch every error
RetrievalThrows ==
    /\ req.pc = "search"
    /\ variant = "orchestrator"
    /\ req' = catchError(req, "Source search failed")
    /\ UNCHANGED <<variant, cache, now>>

\* the reasoning completion call returns (ask.js lines 434-443 and 494-503)
ReasonReturns ==
    /\ req.pc = "reason"
    /\ \E result \in ReasonResults :
          LET final == finalResultOf(attachSourceTexts(result, req.sources),
                                     req.triage, req.sources)
              write == writesCache(variant, req.resumed)
          IN /\ req' = Respond([req EXCEPT !.cacheSets =
                                               IF write THEN @ + 1 ELSE @],
                               200, final)
             /\ cache' = IF write
                         THEN setCache(cache, now, req.question, final)
                         ELSE cache
    /\ UNCHANGED <<variant, now>>

\* the reasoning completion call throws
ReasonThrows ==
    /\ req.pc = "reason"
    /\ \E m \in CompletionErrors :
          req' = catchError([req EXCEPT !.completionError = m], m)
    /\ UNCHANGED <<variant, cache, now>>

\* time passes
Tick ==
    /\ now < MaxTicks * TickStep
    /\ now' = now + TickStep
    /\ UNCHANGED <<variant, cache, req>>

Next ==
    \/ StartOther
    \/ Start
    \/ StartEcho
    \/ TriageReturns
    \/ TriageThrows
    \/ RetrievalReturns
    \/ RetrievalThrows
    \/ ReasonReturns
    \/ ReasonThrows
    \/ Tick

Spec == Init /\ [][Next]_vars

----------------------------------------------------------------------------
(* Properties of the pipeline *)

\* a request the pipeline accepts: a POST whose question is a non-empty string
POSTed ==
    /\ req.method = "POST"
    /\ req.questionType = "string"
    /\ req.question # <<>>

Done == req.pc = "done"

Body == req.response.body

NoRetrievalCall ==
    /\ req.searchArgs = NotCalled
    /\ req.searches = <<>>
    /\ req.fetches = <<>>
    /\ req.lookups = <<>>

NoReasoningCall == req.reasonArgs = NotCalled

\* the entries of c that a lookup of question at time t finds and keeps
LiveEntries(c, t, question) ==
    {i \in 1..Len(c) : /\ c[i].key = getCacheKey(question)
                       /\ t - c[i].timestamp < CACHE_TTL}

\* C1: in the caching handler, a request whose context array is non-empty
\* never writes the cache entry of its normalized question, resumed or fresh.
C1_ContextNeverCached ==
    (variant = "optimized" /\ req.context # <<>>) => req.cacheSets = 0

\* C2: a request that supplied a sessionState never calls setCache.
C2_SessionNeverCached ==
    (variant = "optimized" /\ req.sessionState # Undefined) => req.cacheSets = 0

\* C3: a request that carries a session token performs no cache lookup: the
\* cache is neither read nor modified (no expired entry is evicted) by it.
C3_SessionNeverLooksUp ==
    (variant = "optimized" /\ req.sessionState # Undefined) =>
        req.cacheGets = 0 /\ req.cacheEvictions = 0

\* C4: when a request arrives while an unexpired entry exists for its
\* normalized question, then without a sessionState the response is 200 with
\* the stored result plus fromCache:true and no completion, search or fetch
\* call is made; with a sessionState the stored result is not returned.
C4_CacheHitServed ==
    [][(/\ variant = "optimized"
        /\ req.pc \in {"idle", "done"}
        /\ now' = now
        /\ req'.method = "POST"
        /\ req'.questionType = "string"
        /\ req'.question # <<>>) =>
          \A i \in LiveEntries(cache, now, req'.question) :
              IF req'.sessionState = Undefined
              THEN /\ req'.pc = "done"
                   /\ req'.response =
                        [status |-> 200,
                         body |-> [fromCache |-> TRUE] @@ cache[i].data]
                   /\ req'.triageCalls = 0
                   /\ req'.searchArgs = NotCalled
                   /\ req'.searches = <<>>
                   /\ req'.fetches = <<>>
                   /\ req'.reasonArgs = NotCalled
              ELSE ~(req'.pc = "done" /\ Has(req'.response.body, "fromCache"))
      ]_vars

\* C4 witness: a request for a question spelled "a?" is answered from the
\* entry that an earlier request for "A" stored
C4_Witness ==
    /\ variant = "optimized"
    /\ Done
    /\ req.response.status = 200
    /\ Has(Body, "fromCache")
    /\ req.question = <<"a", "?">>
    /\ cache # <<>>
    /\ req.triageCalls = 0

\* the triage a fresh request obtained from the completion service
FreshTriage == req.triageCalls = 1 /\ req.triage # Undefined

\* C5: after a fresh triage the outcome is the first match of:
\* mustDeferToRabbi -> deferral; needsContext with contextQuestions ->
\* needs_context; isAmbiguous with clarifications -> needs_clarification;
\* otherwise retrieval.
C5_TriageOrder ==
    FreshTriage =>
        IF Has(req.triage, "mustDeferToRabbi") /\ req.triage.mustDeferToRabbi
        THEN /\ Done /\ Body.phase = "complete"
             /\ Has(Body, "mustDeferToRabbi") /\ NoRetrievalCall
        ELSE IF /\ Has(req.triage, "needsContext") /\ req.triage.needsContext
                /\ Has(req.triage, "contextQuestions")
                /\ req.triage.contextQuestions # <<>>
        THEN Done /\ Body.phase = "needs_context" /\ NoRetrievalCall
        ELSE IF /\ Has(req.triage, "isAmbiguous") /\ req.triage.isAmbiguous
                /\ Has(req.triage, "clarifications")
                /\ req.triage.clarifications # <<>>
        THEN Done /\ Body.phase = "needs_clarification" /\ NoRetrievalCall
        ELSE req.searchArgs # NotCalled

\* C5 witness: a triage with all three flags set ends in the deferral
C5_Witness ==
    /\ FreshTriage
    /\ Done
    /\ Has(req.triage, "mustDeferToRabbi") /\ req.triage.mustDeferToRabbi
    /\ req.triage.needsContext /\ req.triage.contextQuestions # <<>>
    /\ req.triage.isAmbiguous /\ req.triage.clarifications # <<>>
    /\ Has(Body, "mustDeferToRabbi")

\* C6: on the fresh path a triage with mustDeferToRabbi ends the request
\* with 200, phase complete, canAnswer false and answer = deferReason (the
\* default text when it is empty); no search, fetch or reasoning call is
\* made and nothing is cached, whatever the other flags.
C6_DeferralIsFinal ==
    (FreshTriage /\ Has(req.triage, "mustDeferToRabbi")
                 /\ req.triage.mustDeferToRabbi) =>
        /\ Done
        /\ req.response.status = 200
        /\ Body.phase = "complete"
        /\ Body.canAnswer = FALSE
        /\ Body.answer = IF req.triage.deferReason = ""
                         THEN DefaultDeferAnswer ELSE req.triage.deferReason
        /\ NoRetrievalCall
        /\ NoReasoningCall
        /\ req.cacheSets = 0

\* C6 witness: a deferral without a reason, although context is also needed
C6_Witness ==
    /\ FreshTriage
    /\ Done
    /\ Has(req.triage, "mustDeferToRabbi") /\ req.triage.mustDeferToRabbi
    /\ req.triage.deferReason = ""
    /\ req.triage.needsContext
    /\ Body.answer = DefaultDeferAnswer

\* the retrieval of this request returned an empty evidence set
ZeroDocuments ==
    Has(req.sources, "allSourcesList") /\ req.sources.allSourcesList = <<>>

\* C7: whenever retrieval yields zero documents, fresh or resumed, the
\* response is 200 with phase complete, canAnswer false and noSourcesFound
\* true, the reasoning call is never made and nothing is cached.
C7_NoSourcesExit ==
    ZeroDocuments =>
        /\ Done
        /\ req.response.status = 200
        /\ Body.phase = "complete"
        /\ Body.canAnswer = FALSE
        /\ Has(Body, "noSourcesFound") /\ Body.noSourcesFound = TRUE
        /\ NoReasoningCall
        /\ req.cacheSets = 0

\* C7 witness: a resumed request whose fetches all failed
C7_Witness ==
    /\ ZeroDocuments
    /\ req.resumed
    /\ req.fetches # <<>>
    /\ Done

\* a session token with triageComplete true that carries its triage
ResumableSession ==
    /\ POSTed
    /\ Has(req.sessionState, "triageComplete")
    /\ req.sessionState.triageComplete = TRUE
    /\ Has(req.sessionState, "triage")

\* the 200 responses of a resumed request, given the triage of its token, its
\* evidence set and what the reasoning call was given
ResumedBodies(triage, sources) ==
    {noSourcesBody(variant, TRUE, triage, sources)}
    \cup {[triage |-> triage, sourcesFound |-> sources.totalSources]
            @@ attachSourceTexts(result, sources) @@ [phase |-> "complete"] :
          result \in ReasonResults}

\* C8: a request whose sessionState has triageComplete true goes to
\* retrieval with sessionState.triage.searchTerms without a triage call,
\* hands the request's context to the reasoning call, and its calls and its
\* response do not depend on contextComplete.
C8_ResumeSkipsTriage ==
    ResumableSession =>
        /\ req.triageCalls = 0
        /\ req.pc \in {"search", "reason", "done"}
        /\ req.searchArgs # NotCalled
        /\ IF Has(req.sessionState.triage, "searchTerms")
           THEN req.searchArgs.searchTerms = req.sessionState.triage.searchTerms
           ELSE req.searchArgs.searchTerms = Undefined
        /\ req.reasonArgs # NotCalled =>
              /\ req.reasonArgs.context = req.context
              /\ req.reasonArgs.triage = req.sessionState.triage
        /\ (Done /\ req.response.status = 200) =>
              Body \in ResumedBodies(req.sessionState.triage, req.sources)

\* C8 witness: a token without contextComplete, with context, reached reasoning
C8_Witness ==
    /\ ResumableSession
    /\ ~Has(req.sessionState, "contextComplete")
    /\ req.context # <<>>
    /\ req.reasonArgs # NotCalled
    /\ Done
    /\ req.response.status = 200

\* C9: every response with phase needs_context or needs_clarification
\* carries sessionState = {triageComplete: true, contextComplete: false,
\* triage: the triage just obtained} and is sent before any search, fetch
\* or reasoning call of that request.
C9_FollowUpCarriesSession ==
    (Done /\ Has(Body, "phase")
          /\ Body.phase \in {"needs_context", "needs_clarification"}) =>
        /\ Has(Body, "sessionState")
        /\ Body.sessionState = [triageComplete |-> TRUE,
                                contextComplete |-> FALSE,
                                triage |-> req.triage]
        /\ NoRetrievalCall
        /\ NoReasoningCall

\* C10: when the client echoes the sessionState of a needs_context or
\* needs_clarification response, triage is called exactly once across the
\* two requests and the triage of the second response is the triage the
\* first response emitted.
C10_TriageOnceAcrossTurns ==
    req.echo =>
        /\ req.firstTriageCalls + req.triageCalls = 1
        /\ (Done /\ req.response.status = 200) =>
              Has(Body, "triage") /\ Body.triage = req.firstTriage

\* C10 witness: the second turn ended with a ruling
C10_Witness ==
    /\ req.echo
    /\ Done
    /\ req.response.status = 200
    /\ Has(Body, "sourcesFound")
    /\ req.context # <<>>

\* C11: when the triage or the reasoning completion call throws, the request
\* ends in that step with one status-500 error response, the cache is left as
\* it was, the request has written no cache entry, and no triage, search,
\* fetch or reasoning call is issued again.
C11_CompletionFailureIsFinal ==
    [][(TriageThrows \/ ReasonThrows) =>
          /\ req'.pc = "done"
          /\ req'.response.status = 500
          /\ Has(req'.response.body, "error")
          /\ ~Has(req'.response.body, "phase")
          /\ cache' = cache
          /\ req'.cacheSets = 0
          /\ req'.triageCalls = req.triageCalls
          /\ req'.searchArgs = req.searchArgs
          /\ req'.searches = req.searches
          /\ req'.fetches = req.fetches
          /\ req'.lookups = req.lookups
          /\ req'.reasonArgs = req.reasonArgs
      ]_vars

\* C11 witness: the reasoning call of the caching handler threw after a
\* successful triage and retrieval, and the cache holds nothing
C11_Witness ==
    /\ variant = "optimized"
    /\ Done
    /\ req.response.status = 500
    /\ req.triageCalls = 1
    /\ req.reasonArgs # NotCalled
    /\ req.cacheSets = 0
    /\ cache = <<>>

\* the request is a POST whose question is missing, empty or not a string
BadQuestion ==
    /\ req.pc # "idle"
    /\ req.method = "POST"
    /\ req.questionType # "string" \/ req.question = <<>>

\* C12: a request whose question is missing, empty or not a string is
\* answered 400 without any completion, search or fetch call; a request that
\* is not a POST is answered 405 before anything else is examined.
C12_BadQuestionRejected ==
    /\ BadQuestion =>
          /\ Done
          /\ req.response.status = 400
          /\ req.triageCalls = 0
          /\ NoRetrievalCall
          /\ NoReasoningCall
    /\ (req.pc # "idle" /\ req.method # "POST") =>
          /\ Done
          /\ req.response.status = 405
          /\ req.triageCalls = 0
          /\ req.cacheGets = 0
          /\ NoRetrievalCall
          /\ NoReasoningCall

\* C13: every 200 response has phase complete, needs_context or
\* needs_clarification, and a response built from a synthesizer result has
\* phase complete, the triage used and the size of the evidence set, whatever
\* fields the completion result itself contains.
C13_PhaseTagged ==
    (Done /\ req.response.status = 200) =>
        /\ Has(Body, "phase")
        /\ Body.phase \in {"complete", "needs_context", "needs_clarification"}
        /\ req.reasonArgs # NotCalled =>
              /\ Body.phase = "complete"
              /\ Body.triage = req.triage
              /\ Body.sourcesFound = req.sources.totalSources

----------------------------------------------------------------------------
(* Retrieval and ranking on their own: the three retrievers and            *)
(* sortByHierarchy applied to inputs of any size.  Here req is the call in *)
(* hand: its arguments, the calls of the retrieval service that fail, and  *)
(* what the call returned.                                                 *)

MaxExplicit == 35
MaxDocs == 4

\* the n-th reference of a work
RefOf(work, n) == work \o [i \in 1..n |-> "x"]

RefSA(n) == RefOf(<<"Shulchan", "Arukh">>, n)
RefTalmud(n) == RefOf(<<"Berakhot">>, n)
RefBerurah(n) == RefOf(<<"Mishnah", "Berurah">>, n)
RefSiman(n) == RefOf(<<"Siman">>, n)

\* n explicit references, all different
Simanim(n) == [i \in 1..n |-> RefSiman(i)]

\* the sefariaRefs argument: none, one, the same one twice, one fewer than
\* stops the English searches and as many as stop them, one more than the
\* parallel retriever fetches, and many
ExplicitRefLists ==
    {<<>>, <<RefSA(1)>>, <<RefSA(1), RefSA(1)>>, Simanim(4), Simanim(5),
     Simanim(13), Simanim(MaxExplicit)}

\* the searchTerms argument: absent, one Hebrew term, more terms than are
\* searched, English terms alone
SearchTermsSet ==
    {Undefined,
     [hebrew |-> <<"h1">>, english |-> <<>>],
     [hebrew |-> <<"h1", "h2", "h3", "h4">>, english |-> <<"e1", "e2", "e3">>],
     [english |-> <<"e1">>]}

SearchTermNames == {"h1", "h2", "h3", "h4", "e1", "e2", "e3"}

\* what the search of a term finds when the call succeeds: more hits than
\* are kept, some of them found twice or found by several terms
SearchHits(term) ==
    CASE term = "h1" -> <<RefSA(1), RefTalmud(1), RefSiman(1), RefSiman(2),
                          RefSiman(3), RefSiman(4)>>
      [] term = "h2" -> <<RefSA(2), RefTalmud(1), RefSiman(5), RefSiman(6),
                          RefSiman(7), RefSiman(8)>>
      [] term = "h3" -> <<RefSA(3), RefSiman(9), RefSiman(10), RefSiman(11),
                          RefSiman(12), RefSiman(14)>>
      [] term = "h4" -> <<RefTalmud(4)>>
      [] term = "e1" -> <<RefSA(1), RefTalmud(2), RefTalmud(2), RefTalmud(3)>>
      [] term = "e2" -> <<RefTalmud(5), RefSiman(1)>>
      [] OTHER -> <<RefTalmud(6)>>

\* the references whose related links may be looked up
RelatedDomain == {RefSA(1), RefSA(2), RefSA(3), RefSA(9)}

\* the related links of a reference: one of them is itself a Shulchan Arukh
\* reference, one is listed twice
RelatedLinks(ref) ==
    <<RefSA(9), RefBerurah(Len(ref)), RefBerurah(Len(ref)), RefSiman(20)>>

\* every reference a retrieval can meet
RetrievalRefs ==
    SeqRange(Simanim(MaxExplicit))
    \cup UNION {SeqRange(SearchHits(term)) : term \in SearchTermNames}
    \cup UNION {SeqRange(RelatedLinks(ref)) : ref \in RelatedDomain}

\* the retrieval service when these calls fail: a failed search is an empty
\* list (ask.js lines 103, 105, 115), a failed fetch is null (lines 123, 152)
RetrievalWorld(failedSearches, failedFetches) ==
    [hits |-> [term \in SearchTermNames |->
                  IF term \in failedSearches THEN <<>> ELSE SearchHits(term)],
     texts |-> RetrievalRefs \ failedFetches,
     related |-> [ref \in RelatedDomain |-> RelatedLinks(ref)]]

\* a list of documents in discovery order, each with its own reference
DocsOf(categories) ==
    [i \in 1..Len(categories) |->
        [ref |-> RefSiman(i), category |-> categories[i]]]

DocLists ==
    UNION {{DocsOf(cs) :
               cs \in [1..n -> {"Shulchan Arukh HaRav", "Shulchan Arukh",
                                "Torah", "Aruch HaShulchan", "Other",
                                "Responsa"}]} :
              n \in 0..MaxDocs}

RetrievalIdle ==
    [pc |-> "idle",
     searchTerms |-> Undefined,
     sefariaRefs |-> <<>>,
     failedSearches |-> {},
     failedFetches |-> {},
     result |-> Undefined,
     docs |-> <<>>,
     sorted |-> <<>>,
     ref |-> <<>>,
     category |-> "Other"]

RetrievalInit ==
    /\ variant \in Handlers
    /\ cache = <<>>
    /\ now = 0
    /\ req = RetrievalIdle

\* one call of the retriever of the handler
Retrieve ==
    /\ req.pc = "idle"
    /\ \E terms \in SearchTermsSet, refs \in ExplicitRefLists,
          failedSearches \in {{}, {"h1"}, SearchTermNames},
          failedFetches \in {{}, {RefSA(1), RefTalmud(1)}, RetrievalRefs} :
          req' = [RetrievalIdle EXCEPT
                    !.pc = "answered",
                    !.searchTerms = terms,
                    !.sefariaRefs = refs,
                    !.failedSearches = failedSearches,
                    !.failedFetches = failedFetches,
                    !.result = retrieve(variant, terms, refs,
                                        RetrievalWorld(failedSearches,
                                                       failedFetches))]
    /\ UNCHANGED <<variant, cache, now>>

\* one call of sortByHierarchy
Sort ==
    /\ req.pc = "idle"
    /\ \E docs \in DocLists :
          req' = [RetrievalIdle EXCEPT
                    !.pc = "sorted",
                    !.docs = docs,
                    !.sorted = sortByHierarchy(docs)]
    /\ UNCHANGED <<variant, cache, now>>

\* the caller is done with what the call returned
Return ==
    /\ req.pc # "idle"
    /\ req' = RetrievalIdle
    /\ UNCHANGED <<variant, cache, now>>

MaxRefWords == 3

\* identifiers handed to the classifier: every identifier of up to
\* MaxRefWords of these words, and identifiers for the other patterns, among
\* them names that are not at the start and names in lower case
ClassifierRefs ==
    UNION {[1..n -> {"Shulchan", "Arukh", "Aruch", "HaRav", "HaShulchan",
                     "Mishneh", "Mishnah", "Torah", "Berurah", "berakhot"}] :
              n \in 0..MaxRefWords}
    \cup {<<"Rambam", "Hilchot", "Shabbat">>, <<"Talmud">>, <<"Bavli">>,
          <<"Yerushalmi", "Berakhot">>, <<"Berakhot", "2a">>,
          <<"Rosh", "Hashanah", "2a">>, <<"Rosh", "2a">>,
          <<"Tosafot", "on", "Berakhot">>, <<"Genesis", "1">>,
          <<"Devarim", "Rabbah">>, <<"Rashi", "on", "Genesis">>,
          <<"shulchan", "arukh">>, <<"Niddah", "Shulchan", "Arukh">>,
          <<"Genesis", "Mishnah", "Berurah">>,
          <<"Mishnah", "Berurah", "on", "Shulchan", "Aruch", "HaRav">>,
          <<"Tur">>}

\* one call of getSourceCategory
Classify ==
    /\ req.pc = "idle"
    /\ \E ref \in ClassifierRefs :
          req' = [RetrievalIdle EXCEPT
                    !.pc = "classified",
                    !.ref = ref,
                    !.category = getSourceCategory(ref)]
    /\ UNCHANGED <<variant, cache, now>>

RetrievalNext == Retrieve \/ Sort \/ Classify \/ Return

RetrievalSpec == RetrievalInit /\ [][RetrievalNext]_vars

Answered == req.pc = "answered"

\* the evidence set the retrieval returned
Evidence == req.result.sources.allSourcesList

\* C14: the evidence set never holds two documents with the same identifier,
\* for every retriever and every input, also when an explicit reference and
\* a search hit, or two search hits, are the same identifier.
C14_NoDuplicateIdentifiers ==
    Answered =>
        \A i, j \in 1..Len(Evidence) :
            i # j => Evidence[i].ref # Evidence[j].ref

\* C14 witness: the explicit reference, given twice, is also the first hit of
\* the Hebrew and of the English search, and it is in the evidence set
C14_Witness ==
    /\ Answered
    /\ req.sefariaRefs = <<RefSA(1), RefSA(1)>>
    /\ "h1" \in SeqRange(req.result.searches)
    /\ "e1" \in SeqRange(req.result.searches)
    /\ req.failedSearches = {}
    /\ RefSA(1) \in DocRefs(Evidence)
    /\ RefTalmud(2) \in DocRefs(Evidence)

\* the position of document d in list s
PositionIn(s, d) == CHOOSE k \in 1..Len(s) : s[k] = d

\* C15: sortByHierarchy returns a permutation of its argument in ascending
\* category priority (10 for Other and for unknown categories), documents of
\* equal priority keeping their discovery order; [Other, HaRav, Torah, HaRav]
\* becomes [HaRav 1st, HaRav 2nd, Torah, Other].
C15_StableRanking ==
    req.pc = "sorted" =>
        /\ Len(req.sorted) = Len(req.docs)
        /\ SeqRange(req.sorted) = SeqRange(req.docs)
        /\ \A i, j \in 1..Len(req.sorted) :
              i < j => SOURCE_PRIORITY(req.sorted[i].category)
                          <= SOURCE_PRIORITY(req.sorted[j].category)
        /\ \A i, j \in 1..Len(req.docs) :
              (/\ i < j
               /\ SOURCE_PRIORITY(req.docs[i].category)
                     = SOURCE_PRIORITY(req.docs[j].category)) =>
                 PositionIn(req.sorted, req.docs[i])
                    < PositionIn(req.sorted, req.docs[j])
        /\ req.docs = DocsOf(<<"Other", "Shulchan Arukh HaRav", "Torah",
                               "Shulchan Arukh HaRav">>) =>
              req.sorted = <<req.docs[2], req.docs[4], req.docs[3], req.docs[1]>>
        /\ req.docs = DocsOf(<<"Responsa", "Other", "Torah", "Responsa">>) =>
              req.sorted = <<req.docs[3], req.docs[1], req.docs[2], req.docs[4]>>

\* C15 witness: the list of the example has been sorted
C15_Witness ==
    /\ req.pc = "sorted"
    /\ req.docs = DocsOf(<<"Other", "Shulchan Arukh HaRav", "Torah",
                           "Shulchan Arukh HaRav">>)
    /\ req.sorted[1] = req.docs[2]
    /\ req.sorted[4] = req.docs[1]

\* the hits of term that a retriever keeps: four per Hebrew and three per
\* English search in the parallel retriever, five and three in the others
KeptHits(term) ==
    Slice(SearchHits(term),
          IF term \in {"e1", "e2", "e3"} THEN 3
          ELSE IF variant = "optimized" THEN 4 ELSE 5)

\* C16: a search or fetch call that fails yields an empty result for that
\* call only: the retrieval returns normally, with exactly the documents of
\* the fetches that succeeded, the searches of the other terms are still
\* made and the hits of the searches that succeeded are still fetched.
C16_FailuresAreAbsorbed ==
    Answered =>
        /\ DocRefs(Evidence) =
              {r \in SeqRange(req.result.fetches) : r \notin req.failedFetches}
        /\ req.result.sources.success = (Evidence # <<>>)
        /\ req.result.sources.totalSources = Len(Evidence)
        /\ \A i \in 1..Len(ListOf(req.searchTerms, "hebrew")) :
              i <= 3 => req.searchTerms.hebrew[i] \in SeqRange(req.result.searches)
        /\ (variant # "optimized" \/ Len(req.result.fetches) < 12) =>
              \A term \in SeqRange(req.result.searches) \ req.failedSearches :
                  SeqRange(KeptHits(term)) \subseteq SeqRange(req.result.fetches)

\* C16 witness: the first search and two fetches failed, and the documents
\* of the second search are in the evidence set
C16_Witness ==
    /\ Answered
    /\ req.failedSearches = {"h1"}
    /\ req.failedFetches = {RefSA(1), RefTalmud(1)}
    /\ "h2" \in SeqRange(req.result.searches)
    /\ RefTalmud(1) \in SeqRange(req.result.fetches)
    /\ RefTalmud(1) \notin DocRefs(Evidence)
    /\ RefSA(2) \in DocRefs(Evidence)

\* the number of calls of the retrieval service the retrieval made
CallsMade ==
    Len(req.result.searches) + Len(req.result.fetches)
        + Len(req.result.lookups)

\* C17: the evidence set of every retriever holds at most 15 documents,
\* whatever the number of explicit references and of search hits.
C17_EvidenceCapped == Answered => Len(Evidence) <= 15

\* C18: the number of search, related-lookup and fetch calls of one
\* retrieval stays below a constant that does not depend on the inputs (34
\* is the most the limits on terms, hits and links allow: 5 searches, 21
\* fetches of hits, 2 lookups, 6 fetches of links), and related links are
\* looked up only for documents that were not themselves found as links.
C18_FanOutBounded ==
    Answered =>
        /\ CallsMade <= 34
        /\ SeqRange(req.result.lookups) \subseteq
              DocRefs(SequentialSteps(
                        req.searchTerms, req.sefariaRefs,
                        RetrievalWorld(req.failedSearches,
                                       req.failedFetches)).docs)

\* C19: every explicit reference is fetched directly, whatever their number
\* and whatever the searches return, by every retriever.
C19_ExplicitRefsFetched ==
    Answered =>
        \A i \in 1..Len(req.sefariaRefs) :
            req.sefariaRefs[i] \in SeqRange(req.result.fetches)

----------------------------------------------------------------------------
(* The response cache on its own: setCache and getFromCache called in any  *)
(* order on a cache that is empty, one short of full, or full.  Here req   *)
(* is the last call and the last write.                                    *)

MaxCacheOps == 3

\* spellings of one question (capitals, punctuation, a space before the
\* punctuation or at the end), and another question
CacheQuestions ==
    {<<"A">>, <<"a", "?">>, <<"a", " ", "!">>, <<"a", " ">>, <<"B">>}

\* n entries written at time 0 under n different keys, the first of them the
\* key of the question "B"
Filled(n) ==
    [i \in 1..n |->
        [key |-> [j \in 1..i |-> "b"],
         data |-> [answer |-> "stored"],
         timestamp |-> 0]]

FillLevels == {0, CACHE_MAX - 1, CACHE_MAX}

CacheIdle ==
    [op |-> "none",
     question |-> <<>>,
     data |-> Null,
     value |-> Null,
     before |-> <<>>,
     lastSet |-> [written |-> FALSE],
     ops |-> 0]

CacheInit ==
    /\ variant = "optimized"
    /\ now = 0
    /\ cache \in {Filled(n) : n \in FillLevels}
    /\ req = CacheIdle

\* setCache(question, data)
CacheSetOp ==
    /\ req.ops < MaxCacheOps
    /\ \E q \in CacheQuestions,
          r \in {[answer |-> "six hours"], [answer |-> "one hour"]} :
          /\ cache' = setCache(cache, now, q, r)
          /\ req' = [req EXCEPT
                       !.op = "set",
                       !.question = q,
                       !.data = r,
                       !.value = Null,
                       !.before = cache,
                       !.lastSet = [written |-> TRUE, question |-> q,
                                    data |-> r, time |-> now],
                       !.ops = @ + 1]
    /\ UNCHANGED <<variant, now>>

\* getFromCache(question)
CacheGetOp ==
    /\ req.ops < MaxCacheOps
    /\ \E q \in CacheQuestions :
          /\ cache' = getFromCache(cache, now, q).cache
          /\ req' = [req EXCEPT
                       !.op = "get",
                       !.question = q,
                       !.data = Null,
                       !.value = getFromCache(cache, now, q).value,
                       !.before = cache,
                       !.ops = @ + 1]
    /\ UNCHANGED <<variant, now>>

\* time passes between two calls
CacheTick ==
    /\ req.ops < MaxCacheOps
    \* the clock moves by a millisecond, or by just less than the TTL
    /\ \E d \in {1, CACHE_TTL - 1} : now' = now + d
    /\ req' = [req EXCEPT !.op = "tick", !.ops = @ + 1]
    /\ UNCHANGED <<variant, cache>>

CacheNext == CacheSetOp \/ CacheGetOp \/ CacheTick

CacheSpec == CacheInit /\ [][CacheNext]_vars

\* q1 and q2 are the same text up to case and punctuation
SameText(q1, q2) ==
    StripNonWord(toLowerCase(q1)) = StripNonWord(toLowerCase(q2))

\* C20: for questions q1 and q2 that are case or punctuation variants of one
\* text, setCache(q1, r) followed by getFromCache(q2) before the time to live
\* has elapsed returns r, also when the set evicted an entry on overflow.
C20_SetThenGet ==
    (/\ req.op = "get"
     /\ req.lastSet.written
     /\ SameText(req.lastSet.question, req.question)
     /\ now - req.lastSet.time < CACHE_TTL) =>
        req.value = req.lastSet.data

\* the entries of c other than the entry of key, in order
Without(c, key) == SelectSeq(c, LAMBDA e : e.key # key)

\* the entries of the cache that the last call found under its key
EntriesFound == SelectSeq(req.before, LAMBDA e : e.key = getCacheKey(req.question))

\* C21: getFromCache returns the stored result if and only if the entry's
\* age, measured from its insertion, is strictly less than 30 minutes; an
\* entry of age 30 minutes or more is reported absent and removed by that
\* get, and a get never removes an unexpired entry.
C21_ExpiryAtTTL ==
    req.op = "get" =>
        IF /\ EntriesFound # <<>>
           /\ now - EntriesFound[1].timestamp < 30 * 60 * 1000
        THEN req.value = EntriesFound[1].data /\ cache = req.before
        ELSE req.value = Null /\ cache = Without(req.before, getCacheKey(req.question))

\* C21 witness: an entry written 30 minutes ago to the millisecond is
\* reported absent and removed
C21_Witness ==
    /\ req.op = "get"
    /\ EntriesFound # <<>>
    /\ now - EntriesFound[1].timestamp = 30 * 60 * 1000
    /\ req.value = Null
    /\ Len(cache) = Len(req.before) - 1

\* the keys of c in the order of the Map
KeysOf(c) == [i \in 1..Len(c) |-> c[i].key]

\* the key the last call was made with
KeyUsed == getCacheKey(req.question)

\* C22: the cache never holds more than 100 entries; a set that adds a 101st
\* key removes exactly one entry, the earliest-inserted key still present and
\* never the key just written; a set on a key already present removes nothing.
C22_CapacityAndEviction ==
    /\ Len(cache) <= 100
    /\ req.op = "set" =>
          /\ \E i \in 1..Len(cache) :
                /\ cache[i] = [key |-> KeyUsed, data |-> req.data,
                               timestamp |-> now]
                /\ \A j \in 1..Len(cache) : cache[j].key = KeyUsed => j = i
          /\ IF EntriesFound # <<>>
             THEN /\ KeysOf(cache) = KeysOf(req.before)
                  /\ Without(cache, KeyUsed) = Without(req.before, KeyUsed)
             ELSE IF Len(req.before) = 100
             THEN /\ Without(cache, KeyUsed) = Tail(req.before)
                  /\ cache[Len(cache)].key = KeyUsed
             ELSE Without(cache, KeyUsed) = req.before

\* C22 witness: a new key written to a full cache whose earliest-inserted key
\* was the most recently written one; that key is the one removed
C22_Witness ==
    /\ req.op = "set"
    /\ Len(req.before) = 100
    /\ EntriesFound = <<>>
    /\ req.before[1].timestamp > req.before[2].timestamp
    /\ KeysOf(cache) = Tail(KeysOf(req.before)) \o <<KeyUsed>>

\* the request ended with a response built from a synthesizer result
Synthesized ==
    Done /\ req.response.status = 200 /\ req.reasonArgs # NotCalled

\* C23: the synthesizer's result has a sourceTexts map whose keys are exactly
\* the identifiers of the evidence set, each record carrying that document's
\* texts and found true, whatever the completion result cited and whatever
\* sourceTexts field it contained.
C23_SourceTextsAttached ==
    Synthesized =>
        /\ Has(Body, "sourceTexts")
        /\ DOMAIN Body.sourceTexts = DocRefs(req.sources.allSourcesList)
        /\ \A i \in 1..Len(req.sources.allSourcesList) :
              Body.sourceTexts[req.sources.allSourcesList[i].ref] =
                 [ref |-> req.sources.allSourcesList[i].ref,
                  english |-> req.sources.allSourcesList[i].english,
                  hebrew |-> req.sources.allSourcesList[i].hebrew,
                  found |-> TRUE]

\* C23 witness: the completion result that brought a sourceTexts field of its
\* own, on an evidence set of two documents
C23_Witness ==
    /\ Synthesized
    /\ Body.answer = "unclear"
    /\ Len(req.sources.allSourcesList) = 2
    /\ <<"Rambam">> \notin DOMAIN Body.sourceTexts

\* the eight category names
CategoryNames ==
    {"Shulchan Arukh HaRav", "Shulchan Arukh", "Mishneh Torah", "Talmud",
     "Torah", "Mishnah Berurah", "Aruch HaShulchan", "Other"}

RulesMatched(ref) ==
    {c \in CategoryNames :
        \/ /\ c = "Shulchan Arukh HaRav"
           /\ \/ Includes(ref, <<"Shulchan", "Arukh", "HaRav">>)
              \/ Includes(ref, <<"Shulchan", "Aruch", "HaRav">>)
        \/ /\ c = "Shulchan Arukh"
           /\ \/ Includes(ref, <<"Shulchan", "Arukh">>)
              \/ Includes(ref, <<"Shulchan", "Aruch">>)
        \/ /\ c = "Mishneh Torah"
           /\ Includes(ref, <<"Mishneh", "Torah">>) \/ Includes(ref, <<"Rambam">>)
        \/ /\ c = "Talmud"
           /\ \/ Includes(ref, <<"Talmud">>) \/ Includes(ref, <<"Bavli">>)
              \/ Includes(ref, <<"Yerushalmi">>)
              \/ MatchesStart(ref, TractateNames)
        \/ c = "Torah" /\ MatchesStart(ref, TorahBookNames)
        \/ c = "Mishnah Berurah" /\ Includes(ref, <<"Mishnah", "Berurah">>)
        \/ c = "Aruch HaShulchan" /\ Includes(ref, <<"Aruch", "HaShulchan">>)}

\* C25: the category returned is the one of smallest priority number among
\* the rules the identifier matches, and Other exactly when it matches none;
\* an identifier containing Shulchan Arukh HaRav is classified Shulchan Arukh
\* HaRav, not Shulchan Arukh.
C25_FirstMatchIsBestPriority ==
    req.pc = "classified" =>
        /\ (RulesMatched(req.ref) = {}) <=> (req.category = "Other")
        /\ RulesMatched(req.ref) # {} =>
              /\ req.category \in RulesMatched(req.ref)
              /\ \A c \in RulesMatched(req.ref) :
                    SOURCE_PRIORITY(req.category) <= SOURCE_PRIORITY(c)
        /\ Includes(req.ref, <<"Shulchan", "Arukh", "HaRav">>) =>
              req.category = "Shulchan Arukh HaRav"

\* C25 witness: an identifier that matches the rules of three categories
C25_Witness ==
    /\ req.pc = "classified"
    /\ req.ref = <<"Mishnah", "Berurah", "on", "Shulchan", "Aruch", "HaRav">>
    /\ Cardinality(RulesMatched(req.ref)) = 3
    /\ req.category = "Shulchan Arukh HaRav"

\* the errors of a completion response that holds no parsable JSON object
ParseErrors == {"Unexpected token", "Failed to parse AI response"}

\* C26: a request whose completion response held no parsable JSON object ends
\* with a status-500 error response and no result, and that response differs
\* from the one the request would have got had the completion service
\* answered with a non-success status.
C26_ParseErrorDistinct ==
    Done /\ req.completionError \in ParseErrors =>
        /\ req.response.status = 500
        /\ Has(Body, "error")
        /\ ~Has(Body, "answer")
        /\ ~Has(Body, "phase")
        /\ req.response #
              catchError(req, "AI service error").response

----------------------------------------------------------------------------
(* Concurrent requests to the caching handler (ask.js lines 399-509).  The *)
(* handler runs on one thread: a request runs from one await to the next  *)
(* without interruption, and another request may run at each await        *)
(* (lines 422, 432, 447, 480, 494).  getFromCache (line 411) and setCache *)
(* (lines 442, 502) contain no await.                                     *)

MaxRequests == 2

MaxConcTicks == 1

\* the requests in flight at one time
Slots == {1, 2}

\* the result the reasoning returns to the request in slot i: the two
\* requests in flight get different results
ConcResult(i) ==
    IF i = 1 THEN [answer |-> "six hours"] ELSE [answer |-> "one hour"]

ConcSlotIdle ==
    [pc |-> "idle",
     question |-> <<>>,
     resumed |-> FALSE,
     missed |-> FALSE,
     wrote |-> FALSE,
     data |-> Null,
     setNo |-> 0]

ConcInit ==
    /\ variant = "optimized"
    /\ now = 0
    /\ cache \in {Filled(n) : n \in FillLevels}
    /\ req = [slot |-> [i \in Slots |-> ConcSlotIdle],
              written |-> {},
              arrivals |-> 0,
              sets |-> 0,
              ticks |-> 0]

\* a request arrives and runs to its first await: the cache lookup, then the
\* response from the cache, or the call of the retrieval for a resumed
\* request, or the call of the triage (ask.js lines 399-447)
ConcArrive ==
    /\ req.arrivals < MaxRequests
    /\ \E i \in Slots, resumed \in BOOLEAN,
          \* two spellings of one question, and another question
          q \in {<<"A">>, <<"a", "?">>, <<"B">>} :
          /\ req.slot[i].pc \in {"idle", "done"}
          /\ cache' = getFromCache(cache, now, q).cache
          /\ req' = [req EXCEPT
                       !.arrivals = @ + 1,
                       !.slot[i] =
                           [ConcSlotIdle EXCEPT
                              !.question = q,
                              !.resumed = resumed,
                              !.missed = getFromCache(cache, now, q).value = Null,
                              !.data = getFromCache(cache, now, q).value,
                              !.pc = IF getFromCache(cache, now, q).value # Null
                                        /\ ~resumed
                                     THEN "done"
                                     ELSE IF resumed THEN "search"
                                     ELSE "triage"]]
    /\ UNCHANGED <<variant, now>>

\* the triage of a request returns and the retrieval is called
\* (ask.js lines 447-480)
ConcTriageReturns ==
    /\ \E i \in Slots :
          /\ req.slot[i].pc = "triage"
          /\ req' = [req EXCEPT !.slot[i].pc = "search"]
    /\ UNCHANGED <<variant, cache, now>>

\* the retrieval of a request returns and the reasoning is called
\* (ask.js lines 422-432 and 480-494)
ConcRetrievalReturns ==
    /\ \E i \in Slots :
          /\ req.slot[i].pc = "search"
          /\ req' = [req EXCEPT !.slot[i].pc = "reason"]
    /\ UNCHANGED <<variant, cache, now>>

\* a request ends at an await without a cache entry: the triage defers or
\* asks, the retrieval finds nothing, or a completion call throws
\* (ask.js lines 449-476, 484-492, 505-508)
ConcStops ==
    /\ \E i \in Slots :
          /\ req.slot[i].pc \in {"triage", "search", "reason"}
          /\ req' = [req EXCEPT !.slot[i].pc = "done"]
    /\ UNCHANGED <<variant, cache, now>>

\* the reasoning of a request returns: the result is stored and sent
\* (ask.js lines 434-443 and 494-503)
ConcReasonReturns ==
    /\ \E i \in Slots :
          /\ req.slot[i].pc = "reason"
          /\ cache' = setCache(cache, now, req.slot[i].question, ConcResult(i))
          /\ req' = [req EXCEPT
                       !.sets = @ + 1,
                       !.written = @ \cup {[question |-> req.slot[i].question,
                                            data |-> ConcResult(i),
                                            time |-> now]},
                       !.slot[i].pc = "done",
                       !.slot[i].wrote = TRUE,
                       !.slot[i].data = ConcResult(i),
                       !.slot[i].setNo = req.sets + 1]
    /\ UNCHANGED <<variant, now>>

\* time passes while requests wait
ConcTick ==
    /\ req.ticks < MaxConcTicks
    /\ now' = now + TickStep
    /\ req' = [req EXCEPT !.ticks = @ + 1]
    /\ UNCHANGED <<variant, cache>>

ConcNext ==
    \/ ConcArrive
    \/ ConcTriageReturns
    \/ ConcRetrievalReturns
    \/ ConcStops
    \/ ConcReasonReturns
    \/ ConcTick

ConcSpec == ConcInit /\ [][ConcNext]_vars

\* the entries of the cache under the key of question q
EntriesUnder(q) == {i \in 1..Len(cache) : cache[i].key = getCacheKey(q)}

\* both requests missed the cache, for questions of one key, and both have
\* stored their result; request i stored last
BothStored(i, j) ==
    /\ i # j
    /\ req.slot[i].missed /\ req.slot[j].missed
    /\ ~req.slot[i].resumed /\ ~req.slot[j].resumed
    /\ req.slot[i].wrote /\ req.slot[j].wrote
    /\ getCacheKey(req.slot[i].question) = getCacheKey(req.slot[j].question)
    /\ req.slot[i].setNo > req.slot[j].setNo

\* e is one of the entries the cache may start with
InitialEntry(e) ==
    /\ Len(e.key) \in 1..CACHE_MAX
    /\ e = [key |-> [j \in 1..Len(e.key) |-> "b"],
            data |-> [answer |-> "stored"],
            timestamp |-> 0]

\* C27: under every interleaving of requests at their awaits the cache holds
\* at most CACHE_MAX entries and at most one entry for a key, every entry is
\* one of the initial entries or the key, the result and the time of one
\* setCache of one request, and when two requests for the same key have both
\* missed and both stored, the cache holds exactly one entry under the key,
\* that of the request that stored last.
C27_CacheNeverCorrupted ==
    /\ Len(cache) <= CACHE_MAX
    /\ Cardinality({cache[i].key : i \in 1..Len(cache)}) = Len(cache)
    /\ \A i \in 1..Len(cache) :
          \/ InitialEntry(cache[i])
          \/ \E w \in req.written :
                cache[i] = [key |-> getCacheKey(w.question),
                            data |-> w.data, timestamp |-> w.time]
    /\ \A i, j \in Slots :
          BothStored(i, j) =>
             /\ Cardinality(EntriesUnder(req.slot[i].question)) = 1
             /\ \A k \in EntriesUnder(req.slot[i].question) :
                   /\ cache[k].data = req.slot[i].data
                   /\ cache[k].timestamp >= 0
                   /\ \E w \in req.written :
                         /\ w.question = req.slot[i].question
                         /\ w.data = cache[k].data
                         /\ w.time = cache[k].timestamp

\* C27 witness: two requests for two spellings of one question were in
\* flight together, both missed a full cache, and they stored different
\* results
C27_Witness ==
    /\ BothStored(2, 1)
    /\ req.arrivals = 2
    /\ req.slot[1].question = <<"A">>
    /\ req.slot[2].question = <<"a", "?">>
    /\ req.slot[1].data # req.slot[2].data
    /\ Len(cache) = CACHE_MAX
    /\ cache[CACHE_MAX].data = req.slot[2].data

----------------------------------------------------------------------------
(* The parallel retriever call by call (ask.js lines 157-217): the search  *)
(* calls are issued together and settle in any order, Promise.all hands    *)
(* their results over in the order of issue once all have settled, and the *)
(* same holds for the fetch calls.                                         *)

\* the slot of a call that has not settled
Pending == [pending |-> TRUE]

\* mutant of PromiseAll: the results are taken as soon as one call has settled
PromiseAny(results) ==
    results = <<>> \/ \E i \in 1..Len(results) : results[i] # Pending

\* await Promise.all(promises) returns (ask.js lines 188 and 196)
PromiseAll(results) == \A i \in 1..Len(results) : results[i] # Pending

ParallelIdle ==
    [pc |-> "idle",
     searchTerms |-> Undefined,
     sefariaRefs |-> <<>>,
     failedSearches |-> {},
     failedFetches |-> {},
     hebrew |-> <<>>,
     english |-> <<>>,
     searchResults |-> <<>>,
     refsToFetch |-> <<>>,
     textResults |-> <<>>,
     result |-> Undefined,
     searchesReordered |-> FALSE,
     fetchesReordered |-> FALSE]

ParallelInit ==
    /\ variant = "optimized"
    /\ cache = <<>>
    /\ now = 0
    /\ req = ParallelIdle

\* the world of the call in hand
ParallelWorld == RetrievalWorld(req.failedSearches, req.failedFetches)

\* the call starts and issues every search (ask.js lines 157-186)
ParallelCall ==
    /\ req.pc = "idle"
    /\ \E terms \in {Undefined,
                      [hebrew |-> <<"h1", "h2", "h3", "h4">>,
                       english |-> <<"e1", "e2", "e3">>]},
          refs \in {<<>>, <<RefSA(1), RefSA(1)>>},
          failedSearches \in {{}, {"h1"}},
          failedFetches \in {{}, {RefSA(1), RefTalmud(1)}} :
          req' = [ParallelIdle EXCEPT
                    !.pc = "searching",
                    !.searchTerms = terms,
                    !.sefariaRefs = refs,
                    !.failedSearches = failedSearches,
                    !.failedFetches = failedFetches,
                    !.hebrew = Slice(ListOf(terms, "hebrew"), 3),
                    !.english = Slice(ListOf(terms, "english"), 2),
                    !.searchResults =
                        [i \in 1..(Len(Slice(ListOf(terms, "hebrew"), 3))
                                   + Len(Slice(ListOf(terms, "english"), 2)))
                           |-> Pending]]
    /\ UNCHANGED <<variant, cache, now>>

\* what the i-th search promise resolves to (ask.js lines 171-173, 181-183)
SearchResult(i) ==
    IF i <= Len(req.hebrew)
    THEN Slice(ParallelWorld.hits[req.hebrew[i]], 4)
    ELSE Slice(ParallelWorld.hits[req.english[i - Len(req.hebrew)]], 3)

\* one search call settles
SearchSettles ==
    /\ req.pc = "searching"
    /\ \E i \in 1..Len(req.searchResults) :
          /\ req.searchResults[i] = Pending
          /\ req' = [req EXCEPT
                       !.searchResults[i] = SearchResult(i),
                       !.searchesReordered =
                           @ \/ \E j \in 1..(i - 1) :
                                   req.searchResults[j] = Pending]
    /\ UNCHANGED <<variant, cache, now>>

\* the results handed over, a call that has not settled giving nothing
Settled(results) ==
    SelectSeq(results, LAMBDA x : x # Pending)

\* the searches are joined, their references merged and the fetches issued
\* (ask.js lines 188-198)
MergeRefs ==
    /\ req.pc = "searching"
    /\ PromiseAll(req.searchResults)
    /\ req' = [req EXCEPT
                 !.pc = "fetching",
                 !.refsToFetch =
                     Slice(Dedupe(Dedupe(<<>>, req.sefariaRefs),
                                  Flatten(Settled(req.searchResults))), 12),
                 !.textResults =
                     [i \in 1..Len(Slice(Dedupe(Dedupe(<<>>, req.sefariaRefs),
                                                Flatten(Settled(req.searchResults))),
                                         12)) |-> Pending]]
    /\ UNCHANGED <<variant, cache, now>>

\* one fetch call settles: the document, or null (ask.js lines 119-154)
FetchSettles ==
    /\ req.pc = "fetching"
    /\ \E i \in 1..Len(req.textResults) :
          /\ req.textResults[i] = Pending
          /\ req' = [req EXCEPT
                       !.textResults[i] =
                           IF req.refsToFetch[i] \in ParallelWorld.texts
                           THEN Document(req.refsToFetch[i])
                           ELSE Null,
                       !.fetchesReordered =
                           @ \/ \E j \in 1..(i - 1) :
                                   req.textResults[j] = Pending]
    /\ UNCHANGED <<variant, cache, now>>

\* the fetches are joined, the documents sorted and the result returned
\* (ask.js lines 196-212)
SortAndReturn ==
    /\ req.pc = "fetching"
    /\ PromiseAll(req.textResults)
    /\ req' = [req EXCEPT
                 !.pc = "returned",
                 !.result =
                     sourcesOf(sortByHierarchy(
                                   SelectSeq(Settled(req.textResults),
                                             LAMBDA x : x # Null)),
                               req.searchTerms, req.sefariaRefs)]
    /\ UNCHANGED <<variant, cache, now>>

\* the caller is done with the result
ParallelDone ==
    /\ req.pc = "returned"
    /\ req' = ParallelIdle
    /\ UNCHANGED <<variant, cache, now>>

ParallelNext ==
    \/ ParallelCall
    \/ SearchSettles
    \/ MergeRefs
    \/ FetchSettles
    \/ SortAndReturn
    \/ ParallelDone

ParallelSpec == ParallelInit /\ [][ParallelNext]_vars

\* C28: once the references are merged every search call has settled, once
\* the result is returned every fetch call has settled, and the references
\* fetched and the evidence returned are those that the arguments and the
\* results of the calls determine, whatever the order in which the calls
\* settled.
C28_JoinBeforeMerge ==
    /\ req.pc \in {"fetching", "returned"} =>
          /\ \A i \in 1..Len(req.searchResults) :
                req.searchResults[i] # Pending
          /\ req.refsToFetch =
                Slice(ParallelRefs(req.hebrew, req.english, req.sefariaRefs,
                                   ParallelWorld), 12)
    /\ req.pc = "returned" =>
          /\ \A i \in 1..Len(req.textResults) : req.textResults[i] # Pending
          /\ req.result =
                searchSourcesParallel(req.searchTerms, req.sefariaRefs,
                                      ParallelWorld).sources

\* C28 witness: searches and fetches settled out of the order of issue, one
\* search and two fetches failed, and twelve references were fetched
C28_Witness ==
    /\ req.pc = "returned"
    /\ req.searchesReordered
    /\ req.fetchesReordered
    /\ req.failedSearches = {"h1"}
    /\ req.failedFetches # {}
    /\ Len(req.searchResults) = 5
    /\ Len(req.refsToFetch) = 12
    /\ req.result.totalSources >= 2
    /\ req.result.totalSources < Len(req.refsToFetch)

\* a call of the list calls that failed and was issued again
Reissued(calls, failed) ==
    {i \in 1..Len(calls) :
        calls[i] \in failed /\ \E j \in 1..(i - 1) : calls[j] = calls[i]}

\* C29: within one retrieval no search call that failed and no fetch call
\* that failed is issued a second time.
C29_FailedCallNotRepeated ==
    Answered =>
        /\ Reissued(req.result.searches, req.failedSearches) = {}
        /\ Reissued(req.result.fetches, req.failedFetches) = {}

\* the session token of the request carries a completed triage that defers
\* to a rabbi
DeferringToken ==
    /\ Has(req.sessionState, "triageComplete")
    /\ req.sessionState.triageComplete = TRUE
    /\ Has(req.sessionState, "triage")
    /\ Has(req.sessionState.triage, "mustDeferToRabbi")
    /\ req.sessionState.triage.mustDeferToRabbi = TRUE

\* C30: a request whose session token carries a completed triage with
\* mustDeferToRabbi makes no search, no fetch and no reasoning call.
C30_DeferringTokenMakesNoCall ==
    DeferringToken =>
        /\ req.searchArgs = NotCalled
        /\ req.searches = <<>>
        /\ req.fetches = <<>>
        /\ req.reasonArgs = NotCalled

\* the documents collected from the explicit references and the Hebrew
\* searches: the references among them whose fetch succeeds
Collected ==
    (SeqRange(req.sefariaRefs)
       \cup UNION {SeqRange(KeptHits(term)) :
                     term \in SeqRange(Slice(ListOf(req.searchTerms, "hebrew"), 3))
                                \ req.failedSearches})
    \ req.failedFetches

\* the English terms searched, in the order of the calls
EnglishSearched ==
    SelectSeq(req.result.searches, LAMBDA term : term \in {"e1", "e2", "e3"})

\* C31: the sequential retrievers search no English term when five or more
\* documents were collected from the explicit references and the Hebrew
\* terms, and search the first two English terms, each once, when fewer than
\* five were collected and there are English terms.
C31_EnglishOnlyWhenFew ==
    Answered /\ variant # "optimized" =>
        IF Cardinality(Collected) >= 5
        THEN EnglishSearched = <<>>
        ELSE EnglishSearched = Slice(ListOf(req.searchTerms, "english"), 2)

\* C31 witness: exactly five documents were collected, English terms were
\* given and none was searched
C31_Witness ==
    /\ Answered
    /\ variant = "consolidated"
    /\ Cardinality(Collected) = 5
    /\ ListOf(req.searchTerms, "english") # <<>>
    /\ EnglishSearched = <<>>
    /\ Len(Evidence) = 5

\* C32: the parallel retriever searches the first three Hebrew terms and the
\* first two English terms and no other (at most 5 calls), fetches only
\* explicit references and the first four hits of a Hebrew search and the
\* first three of an English one, makes at most 12 fetch calls, no two of
\* them for the same identifier, and returns at most 12 documents.
C32_ParallelFanOut ==
    Answered /\ variant = "optimized" =>
        /\ req.result.searches =
              Slice(ListOf(req.searchTerms, "hebrew"), 3)
                 \o Slice(ListOf(req.searchTerms, "english"), 2)
        /\ Len(req.result.searches) <= 5
        /\ SeqRange(req.result.fetches) \subseteq
              SeqRange(req.sefariaRefs)
                 \cup UNION {SeqRange(KeptHits(term)) :
                               term \in SeqRange(req.result.searches)}
        /\ Len(req.result.fetches) <= 12
        /\ \A i, j \in 1..Len(req.result.fetches) :
              req.result.fetches[i] = req.result.fetches[j] => i = j
        /\ Len(Evidence) <= 12
        /\ req.result.lookups = <<>>

\* C32 witness: more terms than are searched were given and more references
\* than are fetched were found, and twelve documents came back
C32_Witness ==
    /\ Answered
    /\ variant = "optimized"
    /\ Len(ListOf(req.searchTerms, "hebrew")) = 4
    /\ Len(req.sefariaRefs) = 2
    /\ Len(req.result.searches) = 5
    /\ Len(req.result.fetches) = 12
    /\ Len(Evidence) = 12

\* the entries of cache c
EntriesOf(c) == {c[i] : i \in 1..Len(c)}

\* C33: a step that creates or overwrites a cache entry is the return of a
\* reasoning call of the caching handler: the request was waiting for the
\* reasoning, ends in that step with status 200, and the one entry written
\* is the response under the key of the request's question at the current
\* time; no other step (cache hit, deferral, needs_context,
\* needs_clarification, no sources, error, rejected request) writes.
C33_WriteOnlyAfterReasoning ==
    [][EntriesOf(cache') \ EntriesOf(cache) # {} =>
          /\ variant = "optimized"
          /\ req.pc = "reason"
          /\ req'.pc = "done"
          /\ req'.response.status = 200
          /\ req'.reasonArgs # NotCalled
          /\ req'.cacheSets = req.cacheSets + 1
          /\ EntriesOf(cache') \ EntriesOf(cache) =
                {[key |-> getCacheKey(req.question),
                  data |-> req'.response.body,
                  timestamp |-> now]}
      ]_vars

\* C33 witness: a request that found no sources has ended while the cache
\* holds the entry of an earlier request
C33_Witness ==
    /\ Done
    /\ variant = "optimized"
    /\ Len(cache) = 1
    /\ req.cacheSets = 0
    /\ req.response.status = 200
    /\ Has(Body, "noSourcesFound")

\* a request on the fresh path that came with a context
FreshWithContext ==
    /\ POSTed
    /\ ~req.resumed
    /\ req.context # <<>>

\* C34: on the fresh path the reasoning call receives an empty context
\* whatever context the request supplied, the context is part of no call's
\* arguments, and neither the response nor a cache entry carries it.
C34_FreshContextIgnored ==
    FreshWithContext =>
        /\ req.reasonArgs # NotCalled => req.reasonArgs.context = <<>>
        /\ req.searchArgs # NotCalled =>
              req.searchArgs = searchArgsOf(req.triage)
        /\ Done => ~Has(Body, "context")
        /\ \A i \in 1..Len(cache) : ~Has(cache[i].data, "context")

\* C34 witness: a fresh request with context answers, whose session token
\* says the triage is not complete, was answered from the sources
C34_Witness ==
    /\ FreshWithContext
    /\ Has(req.sessionState, "triageComplete")
    /\ req.sessionState.triageComplete = FALSE
    /\ req.triageCalls = 1
    /\ Done
    /\ req.response.status = 200
    /\ req.reasonArgs # NotCalled
    /\ req.reasonArgs.context = <<>>

\* the session token says the triage is complete and carries no triage
TokenWithoutTriage ==
    /\ POSTed
    /\ Truthy(req.sessionState, "triageComplete")
    /\ ~Has(req.sessionState, "triage")

\* C35: a request whose token has triageComplete true and no triage object
\* ends with a status-500 error response, without a triage, search, fetch
\* or reasoning call and without a cache write.
C35_TokenWithoutTriageFails ==
    TokenWithoutTriage =>
        /\ Done
        /\ req.response.status = 500
        /\ Has(Body, "error")
        /\ req.triageCalls = 0
        /\ req.searchArgs = NotCalled
        /\ req.searches = <<>>
        /\ req.fetches = <<>>
        /\ req.lookups = <<>>
        /\ req.reasonArgs = NotCalled
        /\ req.cacheSets = 0

\* C35 witness: such a request was made to the caching handler while the
\* cache held an entry for its question
C35_Witness ==
    /\ TokenWithoutTriage
    /\ variant = "optimized"
    /\ Done
    /\ req.response.status = 500
    /\ Len(cache) = 1
    /\ cache[1].key = getCacheKey(req.question)

\* C36: a request that has ended has been sent a response, with status 200,
\* 400, 405 or 500.
C36_OneResponseOnEveryPath ==
    Done => req.response.status \in {200, 400, 405, 500}

\* C37: the key of a question is a fixed point of getCacheKey, has no space
\* at either end, and is the key of every question of the same text up to
\* case, punctuation and the spaces around it.
C37_KeyIdempotent ==
    req.op \in {"get", "set"} =>
        /\ getCacheKey(getCacheKey(req.question)) = getCacheKey(req.question)
        /\ trim(getCacheKey(req.question)) = getCacheKey(req.question)
        /\ \A q \in CacheQuestions :
              trim(StripNonWord(toLowerCase(q)))
                 = trim(StripNonWord(toLowerCase(req.question)))
              => getCacheKey(q) = getCacheKey(req.question)

\* the entries of the cache before the last call that are gone after it
Evicted ==
    {i \in 1..Len(req.before) : CacheIndex(cache, req.before[i].key) = 0}

\* C38 as stated: the entry a set evicts has the oldest timestamp among the
\* entries that were present.
C38_EvictsOldestTimestamp ==
    req.op = "set" =>
        \A i \in Evicted :
            \A j \in 1..Len(req.before) :
                req.before[i].timestamp <= req.before[j].timestamp

\* C38 amended: a set on a key already present renews the entry's timestamp
\* and leaves it in its place in the order of eviction; the entry a set
\* evicts on overflow is the earliest-inserted one, whatever its timestamp.
C38_EvictsOldestInserted ==
    req.op = "set" =>
        /\ CacheIndex(req.before, KeyUsed) # 0 =>
              /\ CacheIndex(cache, KeyUsed) = CacheIndex(req.before, KeyUsed)
              /\ cache[CacheIndex(cache, KeyUsed)].timestamp = now
              /\ Evicted = {}
        /\ Evicted \subseteq {1}
        /\ Evicted # {} <=>
              (CacheIndex(req.before, KeyUsed) = 0 /\ Len(req.before) = CACHE_MAX)

\* C38 witness: the earliest-inserted key was written again, and the next
\* new key evicted it although every other entry had an older timestamp
C38_Witness ==
    /\ req.op = "set"
    /\ Evicted = {1}
    /\ \A j \in 2..Len(req.before) :
          req.before[1].timestamp > req.before[j].timestamp

----------------------------------------------------------------------------
(* The feedback endpoint (feedback.js).  Here req holds the users and      *)
(* feedback tables of the database and the last request with its          *)
(* response.  A query parameter or body field that is absent is the empty *)
(* string, which the handler's tests treat alike.                         *)

MaxFeedback == 2

FEEDBACK_LIMIT == 50

\* the users table (id, email, role); any other id or email has no row
UserIds == {"u1", "u2"}

UserRow(id) ==
    IF id = "u1"
    THEN [id |-> "u1", email |-> "rabbi@shul", name |-> "Rav", role |-> "rabbi"]
    ELSE [id |-> "u2", email |-> "user@shul", name |-> "Reader", role |-> "user"]

\* String.prototype.toLowerCase on the addresses of the model
EmailLower(email) == IF email = "Rabbi@Shul" THEN "rabbi@shul" ELSE email

validIssueTypes ==
    {"incorrect_conclusion", "misapplied_source", "missing_source",
     "reasoning_flaw", "other"}

\* what clients send
FeedbackUserIds == {"", "u1", "u2", "u9"}

FeedbackInit ==
    /\ variant = "feedback"
    /\ cache = <<>>
    /\ now = 0
    /\ \E configured \in BOOLEAN,
          \* no row, or one that a rabbi has dealt with
          table \in {<<>>,
                     <<[id |-> 0, question |-> "q", response |-> "r",
                        issue_type |-> "other", flagged_by |-> "u1",
                        flagged_by_name |-> "Rav", status |-> "resolved"]>>} :
          req = [pc |-> "idle",
                 configured |-> configured,
                 table |-> table,
                 method |-> "",
                 action |-> "",
                 userId |-> "",
                 status |-> "",
                 response |-> NoResponse]

\* the request as received: the response of the request before is gone
Received(method, action, userId, status) ==
    [req EXCEPT !.method = method, !.action = action, !.userId = userId,
                !.status = status, !.response = NoResponse]

\* an OPTIONS request (lines 23-25)
FeedbackOptions ==
    /\ req' = Respond(Received("OPTIONS", "", "", ""), 200, Undefined)
    /\ UNCHANGED <<variant, cache, now>>

\* any other request when the credentials are not configured: getSupabase
\* throws and the catch answers (lines 10-15, 28, 174-179)
FeedbackUnconfigured ==
    /\ ~req.configured
    /\ \E method \in {"GET", "POST", "DELETE"}, userId \in FeedbackUserIds :
          req' = Respond(Received(method, "", userId, ""), 500,
                         [error |-> "Supabase credentials not configured"])
    /\ UNCHANGED <<variant, cache, now>>

\* POST with action login (lines 37-63)
FeedbackLogin ==
    /\ req.configured
    /\ \E email \in {"", "Rabbi@Shul", "user@shul", "nobody@shul"} :
          req' =
            LET r == Received("POST", "login", "", "")
                found == {id \in UserIds : UserRow(id).email = EmailLower(email)}
            IN IF email = ""
               THEN Respond(r, 400, [error |-> "Email required"])
               ELSE IF found = {}
               THEN Respond(r, 401, [error |-> "User not found"])
               ELSE Respond(r, 200,
                            [success |-> TRUE,
                             user |-> UserRow(CHOOSE id \in found : TRUE)])
    /\ UNCHANGED <<variant, cache, now>>

\* the row a submit inserts (lines 100-112)
NewRow(question, issueType, userId, userName) ==
    [id |-> Len(req.table) + 1,
     question |-> question,
     response |-> "r",
     issue_type |-> issueType,
     flagged_by |-> userId,
     flagged_by_name |-> IF userName = "" THEN "Anonymous" ELSE userName,
     status |-> "pending"]

\* POST with action submit (lines 66-124)
FeedbackSubmit ==
    /\ req.configured
    /\ Len(req.table) < MaxFeedback
    /\ \E question \in {"", "q"}, issueType \in {"", "other", "reasoning_flaw", "typo"},
          userId \in FeedbackUserIds, insertFails \in BOOLEAN :
          req' =
            LET r == Received("POST", "submit", userId, "")
            IN IF question = "" \/ issueType = ""
               THEN Respond(r, 400, [error |-> "Missing required fields"])
               ELSE IF issueType \notin validIssueTypes
               THEN Respond(r, 400, [error |-> "Invalid issue type"])
               ELSE IF insertFails
               THEN Respond(r, 500, [error |-> "Failed to save feedback"])
               ELSE Respond([r EXCEPT !.table =
                                Append(@, NewRow(question, issueType, userId, ""))],
                            200,
                            [success |-> TRUE,
                             feedbackId |-> Len(req.table) + 1])
    /\ UNCHANGED <<variant, cache, now>>

\* POST with any other action (line 127)
FeedbackInvalidAction ==
    /\ req.configured
    /\ req' = Respond(Received("POST", "delete", "", ""), 400,
                      [error |-> "Invalid action"])
    /\ UNCHANGED <<variant, cache, now>>

\* the rows the list query returns: newest first, those of the status asked
\* for, FEEDBACK_LIMIT at most (lines 149-159)
FeedbackRows(table, status) ==
    Slice(SelectSeq([i \in 1..Len(table) |-> table[Len(table) + 1 - i]],
                    LAMBDA row : status = "" \/ row.status = status),
          FEEDBACK_LIMIT)

\* GET (lines 133-170): the role is looked up only when a userId is given
FeedbackGet ==
    /\ req.configured
    /\ \E userId \in FeedbackUserIds, status \in {"", "pending", "resolved"},
          queryFails \in BOOLEAN :
          req' =
            LET r == Received("GET", "", userId, status)
            IN IF userId # ""
                  /\ (userId \notin UserIds \/ UserRow(userId).role # "rabbi")
               THEN Respond(r, 403, [error |-> "Unauthorized"])
               ELSE IF queryFails
               THEN Respond(r, 500, [error |-> "Failed to fetch feedback"])
               ELSE Respond(r, 200,
                            [success |-> TRUE,
                             feedback |-> FeedbackRows(req.table, status)])
    /\ UNCHANGED <<variant, cache, now>>

\* a request of another method (line 172)
FeedbackOtherMethod ==
    /\ req.configured
    /\ req' = Respond(Received("DELETE", "", "", ""), 405,
                      [error |-> "Method not allowed"])
    /\ UNCHANGED <<variant, cache, now>>

FeedbackNext ==
    \/ FeedbackOptions
    \/ FeedbackUnconfigured
    \/ FeedbackLogin
    \/ FeedbackSubmit
    \/ FeedbackInvalidAction
    \/ FeedbackGet
    \/ FeedbackOtherMethod

FeedbackSpec == FeedbackInit /\ [][FeedbackNext]_vars

\* the requester of the last request is a user whose role is rabbi
VerifiedRabbi ==
    /\ req.userId \in UserIds
    /\ UserRow(req.userId).role = "rabbi"

\* C39: a GET whose requester is not a verified rabbi (unknown, another
\* role, or no userId) is refused and returns no feedback rows.
C39_FeedbackOnlyToRabbis ==
    req.method = "GET" /\ ~VerifiedRabbi =>
        /\ req.response.status # 200
        /\ ~Has(req.response.body, "feedback")

====
